---------------------------- MODULE Spec2Model ----------------------------
(***************************************************************************)
(* A model of pyrra's API process (main.go): the Prometheus query cache    *)
(* (promCache), the Thanos transport adapter (thanosClient), the status    *)
(* aggregation of GetObjectiveStatus and the three-way burn-rate fan-out   *)
(* of GetMultiBurnrateAlerts.                                              *)
(*                                                                         *)
(* Each component has its own specification (SpecCache, SpecStatus,        *)
(* SpecAlerts, SpecThanos, SpecResolve, SpecRange, SpecMatrix); a          *)
(* specification leaves the variables of the other components at their     *)
(* initial value.                                                          *)
(***************************************************************************)
EXTENDS Integers, Sequences, FiniteSets, TLC

VARIABLES
    cache,      \* promCache.cache: key -> entry (ristretto.Cache)
    inflight,   \* SpecCache: per request slot, the backend call it waits for
    lastCall,   \* SpecCache: what the last promCache call returned
    stIn,       \* SpecStatus: the objective's target and the backend's answers
    stResp,     \* SpecStatus: the last GetObjectiveStatus response
    thReq,      \* SpecThanos: the request handed to thanosClient.Do
    thFwd,      \* SpecThanos: what Do handed on to the wrapped client
    pc,         \* SpecAlerts: where GetMultiBurnrateAlerts stands
    baseAlerts, \* SpecAlerts: the number of alert rules of the objective
    ba,         \* SpecAlerts: the rule of the current iteration
    short,      \* SpecAlerts: *short of the current iteration
    long,       \* SpecAlerts: *long of the current iteration
    alertstate, \* SpecAlerts: alertstate of the current iteration
    wg,         \* SpecAlerts: the counter of the sync.WaitGroup
    worker,     \* SpecAlerts: the three goroutines of the current iteration
    alerts,     \* SpecAlerts: the alerts appended so far
    alResp,     \* SpecAlerts: the response of GetMultiBurnrateAlerts
    accesses,   \* SpecAlerts: the reads and writes of the current iteration
    hIn,        \* SpecResolve, SpecRange, SpecMatrix: the call and its inputs
    hOut        \* SpecResolve, SpecRange, SpecMatrix: what the call came to

cacheVars == <<cache, inflight, lastCall>>
statusVars == <<stIn, stResp>>
thanosVars == <<thReq, thFwd>>
alertVars ==
    <<pc, baseAlerts, ba, short, long, alertstate, wg, worker, alerts, alResp, accesses>>
handlerVars == <<hIn, hOut>>
vars == <<cache, inflight, lastCall, stIn, stResp, thReq, thFwd,
          pc, baseAlerts, ba, short, long, alertstate, wg, worker, alerts, alResp,
          accesses, hIn, hOut>>

(***************************************************************************)
(* float64.  A value is NaN, +Inf, -Inf or a finite number kept as a       *)
(* reduced fraction n/d (d > 0).  Arithmetic follows IEEE 754 for the      *)
(* special values; finite results are exact (rounding and the sign of zero *)
(* are not modelled).                                                      *)
(***************************************************************************)
Abs(i) == IF i < 0 THEN -i ELSE i

RECURSIVE Gcd(_, _)
Gcd(a, b) == IF b = 0 THEN a ELSE Gcd(b, a % b)

NaN == [k |-> "nan", n |-> 0, d |-> 1]
PInf == [k |-> "inf", n |-> 1, d |-> 1]
NInf == [k |-> "inf", n |-> -1, d |-> 1]

Fin(n, d) ==
    LET s == IF d < 0 THEN -1 ELSE 1
        g == Gcd(Abs(n), Abs(d))
    IN  [k |-> "fin", n |-> (s * n) \div g, d |-> (s * d) \div g]

F(i) == Fin(i, 1)

IsNaN(x) == x.k = "nan"
IsInf(x) == x.k = "inf"
IsFin(x) == x.k = "fin"
Sign(x) == IF x.n > 0 THEN 1 ELSE IF x.n < 0 THEN -1 ELSE 0
InfOf(s) == IF s < 0 THEN NInf ELSE PInf

\* Go's == on float64: NaN equals nothing.
FEq(x, y) == ~IsNaN(x) /\ ~IsNaN(y) /\ x = y

FNeg(x) == IF IsNaN(x) THEN NaN ELSE [x EXCEPT !.n = -x.n]

FAdd(x, y) ==
    IF IsNaN(x) \/ IsNaN(y) THEN NaN
    ELSE IF IsInf(x) /\ IsInf(y) THEN (IF x.n = y.n THEN x ELSE NaN)
    ELSE IF IsInf(x) THEN x
    ELSE IF IsInf(y) THEN y
    ELSE Fin(x.n * y.d + y.n * x.d, x.d * y.d)

FSub(x, y) == FAdd(x, FNeg(y))

FMul(x, y) ==
    IF IsNaN(x) \/ IsNaN(y) THEN NaN
    ELSE IF IsInf(x) \/ IsInf(y)
         THEN (IF Sign(x) * Sign(y) = 0 THEN NaN ELSE InfOf(Sign(x) * Sign(y)))
    ELSE Fin(x.n * y.n, x.d * y.d)

FDiv(x, y) ==
    IF IsNaN(x) \/ IsNaN(y) THEN NaN
    ELSE IF IsInf(x) THEN (IF IsInf(y) THEN NaN
                           ELSE InfOf(x.n * (IF Sign(y) < 0 THEN -1 ELSE 1)))
    ELSE IF IsInf(y) THEN F(0)
    ELSE IF y.n = 0 THEN (IF x.n = 0 THEN NaN ELSE InfOf(Sign(x)))
    ELSE Fin(x.n * y.d, x.d * y.n)

(***************************************************************************)
(* model.Value.  A vector is a sequence of samples; a sample carries the   *)
(* fingerprint of its label set, its alertstate label ("" when the label   *)
(* is missing) and its value.  A matrix is a sequence of series; the       *)
(* cache and the instant-query callers only look at its kind and length.   *)
(***************************************************************************)
Sample(fp, as, v) == [fp |-> fp, alertstate |-> as, value |-> v]
Vector(samples) == [type |-> "vector", samples |-> samples]
Matrix(series) == [type |-> "matrix", samples |-> series]
Scalar == [type |-> "scalar", samples |-> <<>>]
Nil == [type |-> "nil", samples |-> <<>>]

\* What the backend (api.Query / api.QueryRange) hands back.
Response(value, warnings, err) ==
    [value |-> value, warnings |-> warnings, err |-> err]


(***************************************************************************)
(* promCache: the ristretto cache in front of the backend.                 *)
(***************************************************************************)
\* SetWithTTL's cost and ttl arguments (minutes).
QueryCost == 10
QueryTTL == 5
RangeCost == 100
RangeTTL == 10

\* Request slots of SpecCache: HTTP requests served in parallel.
MaxInflight == 2
\* The clock's granularity, in minutes.
TickMinutes == 5
Reqs == 1..MaxInflight

\* Query texts and ranges the callers pass.  time.Time.String() renders a
\* range bound; the second text is the first followed by a rendered range.
TimeString(t) == "T" \o ToString(t)
QueryTexts == {"up", "up" \o TimeString(0) \o TimeString(1)}
RangeTexts == {"up"}
Ranges == {[Start |-> 0, End |-> 1]}

\* xxhash.Digest: WriteString appends to the hashed byte stream and Sum64
\* is a function of that stream alone.  The digest is identified with the
\* stream it digests, so two keys are equal exactly when the concatenated
\* streams are equal (an accidental 64-bit collision is not modelled).
WriteString(h, s) == h \o s
Sum64(h) == h

QueryKey(query) == Sum64(WriteString("", query))
RangeKey(query, r) ==
    Sum64(WriteString(WriteString(WriteString("", query),
                                  TimeString(r.Start)), TimeString(r.End)))

Keys == {QueryKey(q) : q \in QueryTexts}
            \cup {RangeKey(q, r) : q \in RangeTexts, r \in Ranges}

\* objective.QueryTotal(window) and objective.QueryErrors(window): the two
\* instant queries of GetObjectiveStatus.
QueryTotal == "total"
QueryErrors == "errors"
StatusKeys == {QueryKey(QueryTotal), QueryKey(QueryErrors)}

\* A cache entry; src remembers the backend response it was admitted from.
NoSrc == [op |-> "none", warnings |-> 0, err |-> FALSE]
NoEntry == [present |-> FALSE, value |-> Nil, left |-> 0, cost |-> 0, src |-> NoSrc]

\* ristretto's Get: the stored value, if the entry is there and unexpired
\* (expired entries are removed by Tick).
Get(c, key) == [value |-> c[key].value, exists |-> c[key].present]

\* ristretto's SetWithTTL: the entry is admitted, or the Set is dropped
\* (it returns false, which the callers ignore).
SetWithTTL(c, key, value, cost, ttl, src, admitted) ==
    IF admitted
    THEN [c EXCEPT ![key] = [present |-> TRUE, value |-> value, left |-> ttl,
                             cost |-> cost, src |-> src]]
    ELSE c

\* What a promCache call returns, with the cache it leaves behind; backend
\* says whether api.Query / api.QueryRange was invoked.
Return(value, warnings, err, backend, c) ==
    [value |-> value, warnings |-> warnings, err |-> err,
     backend |-> backend, cache |-> c]

\* Mutant of CacheHit: the lookup's result is dropped and every call goes
\* to the backend.
CacheHit_Ignored(c, key) == FALSE

\* The lookup at the head of Query and QueryRange.
CacheHit(c, key) == Get(c, key).exists

\* Mutant of AdmitVector: the warnings are not looked at.
AdmitVector_IgnoreWarnings(value, warnings) ==
    value.type = "vector" /\ Len(value.samples) > 0

\* Query's admission test.
AdmitVector(value, warnings) ==
    value.type = "vector" /\ Len(value.samples) > 0 /\ warnings = 0

\* QueryRange's admission test.
AdmitMatrix(value, warnings) ==
    value.type = "matrix" /\ Len(value.samples) > 0 /\ warnings = 0

\* promCache.Query after a miss: the backend answered resp.
QueryMiss(c, key, resp, admitted) ==
    IF resp.err
    THEN Return(Nil, resp.warnings, TRUE, TRUE, c)
    ELSE Return(resp.value, resp.warnings, FALSE, TRUE,
                IF AdmitVector(resp.value, resp.warnings)
                THEN SetWithTTL(c, key, resp.value, QueryCost, QueryTTL,
                                [op |-> "Query", warnings |-> resp.warnings,
                                 err |-> resp.err], admitted)
                ELSE c)

\* promCache.QueryRange after a miss.
QueryRangeMiss(c, key, resp, admitted) ==
    IF resp.err
    THEN Return(Nil, resp.warnings, TRUE, TRUE, c)
    ELSE Return(resp.value, resp.warnings, FALSE, TRUE,
                IF AdmitMatrix(resp.value, resp.warnings)
                THEN SetWithTTL(c, key, resp.value, RangeCost, RangeTTL,
                                [op |-> "QueryRange", warnings |-> resp.warnings,
                                 err |-> resp.err], admitted)
                ELSE c)

\* promCache.Query as one call: a hit returns the stored value with no
\* warnings and no error, a miss asks the backend.
Query(c, query, resp, admitted) ==
    IF CacheHit(c, QueryKey(query))
    THEN Return(Get(c, QueryKey(query)).value, 0, FALSE, FALSE, c)
    ELSE QueryMiss(c, QueryKey(query), resp, admitted)

EmptyCache == [key \in Keys \cup StatusKeys |-> NoEntry]
Idle == [op |-> "idle", key |-> ""]
NoCall == [op |-> "none", key |-> "", value |-> Nil, warnings |-> 0,
           err |-> FALSE, backend |-> FALSE]
Called(op, key, ret) ==
    [op |-> op, key |-> key, value |-> ret.value, warnings |-> ret.warnings,
     err |-> ret.err, backend |-> ret.backend]

\* Backend answers of SpecCache.
VecEmpty == Vector(<<>>)
VecA == Vector(<<Sample(1, "", F(1))>>)
VecB == Vector(<<Sample(1, "", F(2))>>)
MatEmpty == Matrix(<<>>)
MatA == Matrix(<<Sample(1, "", F(1))>>)
CacheValues == {VecEmpty, VecA, VecB, MatEmpty, MatA, Scalar}
CacheResponses ==
    {Response(Nil, w, TRUE) : w \in 0..1}
        \cup {Response(v, w, FALSE) : v \in CacheValues, w \in 0..1}

CacheInit ==
    /\ cache = EmptyCache
    /\ inflight = [r \in Reqs |-> Idle]
    /\ lastCall = NoCall

\* Query, up to the backend call: a hit returns at once.
QueryCall(r, query) ==
    /\ inflight[r].op = "idle"
    /\ IF CacheHit(cache, QueryKey(query))
       THEN /\ lastCall' = Called("Query", QueryKey(query),
                                  Return(Get(cache, QueryKey(query)).value,
                                         0, FALSE, FALSE, cache))
            /\ UNCHANGED <<cache, inflight>>
       ELSE /\ inflight' = [inflight EXCEPT ![r] =
                                [op |-> "Query", key |-> QueryKey(query)]]
            /\ UNCHANGED <<cache, lastCall>>
    /\ UNCHANGED <<statusVars, thanosVars, alertVars, handlerVars>>

\* Query, from the backend's answer to the return.
QueryReturn(r, resp, admitted) ==
    /\ inflight[r].op = "Query"
    /\ LET ret == QueryMiss(cache, inflight[r].key, resp, admitted)
       IN  /\ cache' = ret.cache
           /\ lastCall' = Called("Query", inflight[r].key, ret)
    /\ inflight' = [inflight EXCEPT ![r] = Idle]
    /\ UNCHANGED <<statusVars, thanosVars, alertVars, handlerVars>>

QueryRangeCall(r, query, range) ==
    /\ inflight[r].op = "idle"
    /\ IF CacheHit(cache, RangeKey(query, range))
       THEN /\ lastCall' = Called("QueryRange", RangeKey(query, range),
                                  Return(Get(cache, RangeKey(query, range)).value,
                                         0, FALSE, FALSE, cache))
            /\ UNCHANGED <<cache, inflight>>
       ELSE /\ inflight' = [inflight EXCEPT ![r] =
                                [op |-> "QueryRange", key |-> RangeKey(query, range)]]
            /\ UNCHANGED <<cache, lastCall>>
    /\ UNCHANGED <<statusVars, thanosVars, alertVars, handlerVars>>

QueryRangeReturn(r, resp, admitted) ==
    /\ inflight[r].op = "QueryRange"
    /\ LET ret == QueryRangeMiss(cache, inflight[r].key, resp, admitted)
       IN  /\ cache' = ret.cache
           /\ lastCall' = Called("QueryRange", inflight[r].key, ret)
    /\ inflight' = [inflight EXCEPT ![r] = Idle]
    /\ UNCHANGED <<statusVars, thanosVars, alertVars, handlerVars>>

\* Time passes, TickMinutes at a time: every entry is that much closer to
\* its expiry, and an entry past it is gone (ristretto's Get no longer
\* returns it).
Expire(c) ==
    [key \in DOMAIN c |->
        IF c[key].present /\ c[key].left >= TickMinutes
        THEN [c[key] EXCEPT !.left = c[key].left - TickMinutes]
        ELSE NoEntry]

Tick ==
    /\ \E key \in Keys : cache[key].present
    /\ cache' = Expire(cache)
    /\ UNCHANGED <<inflight, lastCall>>
    /\ UNCHANGED <<statusVars, thanosVars, alertVars, handlerVars>>

\* ristretto evicts an entry to keep the total cost under MaxCost.
Evict(key) ==
    /\ cache[key].present
    /\ cache' = [cache EXCEPT ![key] = NoEntry]
    /\ UNCHANGED <<inflight, lastCall>>
    /\ UNCHANGED <<statusVars, thanosVars, alertVars, handlerVars>>

StatusIdle == stIn = <<>> /\ stResp = <<>>
ThanosIdle == thReq = <<>> /\ thFwd = <<>>
HandlerIdle == hIn = <<>> /\ hOut = <<>>
AlertsIdle ==
    /\ pc = "idle"
    /\ baseAlerts = 0
    /\ ba = 0
    /\ short = <<>>
    /\ long = <<>>
    /\ alertstate = ""
    /\ wg = 0
    /\ worker = <<>>
    /\ alerts = <<>>
    /\ alResp = <<>>
    /\ accesses = {}

InitCache == CacheInit /\ StatusIdle /\ ThanosIdle /\ AlertsIdle /\ HandlerIdle

NextCache ==
    \/ \E r \in Reqs, q \in QueryTexts : QueryCall(r, q)
    \/ \E r \in Reqs, resp \in CacheResponses, a \in BOOLEAN : QueryReturn(r, resp, a)
    \/ \E r \in Reqs, q \in RangeTexts, rg \in Ranges : QueryRangeCall(r, q, rg)
    \/ \E r \in Reqs, resp \in CacheResponses, a \in BOOLEAN : QueryRangeReturn(r, resp, a)
    \/ Tick
    \/ \E key \in Keys : Evict(key)

SpecCache == InitCache /\ [][NextCache]_vars

(***************************************************************************)
(* GetObjectiveStatus, from the two instant queries to the response (the   *)
(* objective has been resolved and the grouping merged).                   *)
(***************************************************************************)
Fingerprints == {1, 2}

\* An ObjectiveStatus; Go's zero value for the fields not set yet.
ObjectiveStatus(fp, percentage, total) ==
    [fp |-> fp, Percentage |-> percentage, Total |-> total, Errors |-> F(0),
     BudgetTotal |-> F(0), Remaining |-> F(0), Max |-> F(0)]

\* The loop over the total query's vector: statuses[fingerprint] = status.
RECURSIVE StatusesOfTotal(_, _)
StatusesOfTotal(samples, statuses) ==
    IF samples = <<>> THEN statuses
    ELSE LET v == Head(samples)
             st == ObjectiveStatus(v.fp, F(1), v.value)
         IN  StatusesOfTotal(Tail(samples),
                 [fp \in DOMAIN statuses \cup {v.fp} |->
                     IF fp = v.fp THEN st ELSE statuses[fp]])

\* s := statuses[fingerprint]: the map holds pointers, and a missing key
\* yields the nil pointer.
Lookup(statuses, fp) ==
    IF fp \in DOMAIN statuses
    THEN [nil |-> FALSE, s |-> statuses[fp]]
    ELSE [nil |-> TRUE, s |-> ObjectiveStatus(fp, F(0), F(0))]

\* The body of the loop over the errors query's vector, through s.
WithErrors(s, value) ==
    [s EXCEPT !.Errors = value,
              !.Percentage = FSub(F(1), FDiv(value, s.Total))]

\* The loop over the errors query's vector; writing through the nil pointer
\* panics.
RECURSIVE ApplyErrors(_, _)
ApplyErrors(samples, statuses) ==
    IF samples = <<>> THEN [panic |-> FALSE, statuses |-> statuses]
    ELSE LET v == Head(samples)
             l == Lookup(statuses, v.fp)
         IN  IF l.nil
             THEN [panic |-> TRUE, statuses |-> statuses]
             ELSE ApplyErrors(Tail(samples),
                      [statuses EXCEPT ![v.fp] = WithErrors(l.s, v.value)])

\* The budget fields of one status.
WithBudget(s, target) ==
    LET total == FSub(F(1), target)
    IN  [s EXCEPT !.BudgetTotal = total,
                  !.Remaining = FDiv(FSub(total, FDiv(s.Errors, s.Total)), total),
                  !.Max = FMul(total, s.Total)]

\* Mutant of NaNToOne: the NaN is passed on.
NaNToOne_Keep(x) == x

\* if math.IsNaN(x) { x = 1 }
NaNToOne(x) == IF IsNaN(x) THEN F(1) ELSE x

\* The skip of a status without requests.
SkipStatus(s) == FEq(s.Total, F(0))

\* The final loop, over the map in the order Go happens to iterate it.
RECURSIVE StatusSlice(_, _, _)
StatusSlice(order, statuses, target) ==
    IF order = <<>> THEN <<>>
    ELSE LET s == WithBudget(statuses[Head(order)], target)
             rest == StatusSlice(Tail(order), statuses, target)
         IN  IF SkipStatus(s) THEN rest
             ELSE <<[s EXCEPT !.Percentage = NaNToOne(s.Percentage),
                              !.Remaining = NaNToOne(s.Remaining)]>> \o rest

\* Go iterates a map in an unspecified order: perm is an order of all
\* fingerprints, and the map is visited in that order.
Orders(S) ==
    {o \in [1..Cardinality(S) -> S] : \A i, j \in DOMAIN o : i # j => o[i] # o[j]}

MapOrder(perm, keys) == SelectSeq(perm, LAMBDA fp : fp \in keys)

ImplResponse(code, body, panic) == [code |-> code, body |-> body, panic |-> panic]

\* The handler's outcome, with the cache it leaves behind.  total and errors
\* are the backend's answers should promCache.Query ask for them.
StatusOutcome(c, target, total, errors, admittedT, admittedE, perm) ==
    LET rt == Query(c, QueryTotal, total, admittedT)
    IN  IF rt.err THEN [resp |-> ImplResponse(500, <<>>, FALSE), cache |-> rt.cache]
        ELSE IF rt.value.type # "vector"     \* value.(model.Vector) panics
        THEN [resp |-> ImplResponse(0, <<>>, TRUE), cache |-> rt.cache]
        ELSE
        LET statuses == StatusesOfTotal(rt.value.samples, <<>>)
            re == Query(rt.cache, QueryErrors, errors, admittedE)
        IN  IF re.err THEN [resp |-> ImplResponse(500, <<>>, FALSE), cache |-> re.cache]
            ELSE IF re.value.type # "vector"
            THEN [resp |-> ImplResponse(0, <<>>, TRUE), cache |-> re.cache]
            ELSE
            LET ae == ApplyErrors(re.value.samples, statuses)
            IN  IF ae.panic
                THEN [resp |-> ImplResponse(0, <<>>, TRUE), cache |-> re.cache]
                ELSE [resp |-> ImplResponse(200,
                                   StatusSlice(MapOrder(perm, DOMAIN ae.statuses),
                                               ae.statuses, target), FALSE),
                      cache |-> re.cache]

\* Inputs of SpecStatus.
Targets == {F(0), Fin(99, 100), F(1)}
TotalValues == {F(0), F(10000), NaN}
ErrorValues == {F(0), F(50), NaN}

\* The vectors over Fingerprints with values in V, one sample per label set.
VectorsOver(V) ==
    {Vector(<<>>)}
        \cup {Vector(<<Sample(fp, "", v)>>) : fp \in Fingerprints, v \in V}
        \cup {Vector(<<Sample(1, "", v), Sample(2, "", w)>>) : v \in V, w \in V}

StatusResponses(V) ==
    {Response(Nil, 0, TRUE), Response(Scalar, 0, FALSE)}
        \cup {Response(vec, 0, FALSE) : vec \in VectorsOver(V)}

NoResp == ImplResponse(0, <<>>, FALSE)

InitStatus ==
    /\ CacheInit
    /\ ThanosIdle
    /\ AlertsIdle
    /\ HandlerIdle
    /\ stIn \in [target : Targets,
                 total : StatusResponses(TotalValues),
                 errors : StatusResponses(ErrorValues)]
    /\ stResp = NoResp

GetObjectiveStatus(admittedT, admittedE, perm) ==
    /\ LET out == StatusOutcome(cache, stIn.target, stIn.total, stIn.errors,
                                admittedT, admittedE, perm)
       IN  /\ cache' = out.cache
           /\ stResp' = out.resp
    /\ UNCHANGED <<inflight, lastCall, stIn, thanosVars, alertVars, handlerVars>>

TickStatus ==
    /\ \E key \in StatusKeys : cache[key].present
    /\ cache' = Expire(cache)
    /\ UNCHANGED <<inflight, lastCall, stIn, stResp, thanosVars, alertVars, handlerVars>>

NextStatus ==
    \/ \E at \in BOOLEAN, ae \in BOOLEAN, perm \in Orders(Fingerprints) :
            GetObjectiveStatus(at, ae, perm)
    \/ TickStatus

SpecStatus == InitStatus /\ [][NextStatus]_vars

(***************************************************************************)
(* thanosClient.Do: the adapter that rewrites the form body of every       *)
(* request on its way to the backend.  A string is a sequence of bytes; a  *)
(* byte is written as its character, or as "x" and its two hex digits      *)
(* (outside printable ASCII, and for the backslash and the grave accent).  *)
(***************************************************************************)
Printable ==
    <<
      " ", "!", "\"", "#", "$", "%", "&", "'", "(", ")", "*", "+",
      ",", "-", ".", "/", "0", "1", "2", "3", "4", "5", "6", "7",
      "8", "9", ":", ";", "<", "=", ">", "?", "@", "A", "B", "C",
      "D", "E", "F", "G", "H", "I", "J", "K", "L", "M", "N", "O",
      "P", "Q", "R", "S", "T", "U", "V", "W", "X", "Y", "Z", "[",
      "x5C", "]", "^", "_", "x60", "a", "b", "c", "d", "e", "f", "g",
      "h", "i", "j", "k", "l", "m", "n", "o", "p", "q", "r", "s",
      "t", "u", "v", "w", "x", "y", "z", "{", "|", "}", "~" >>
HexDigits == <<"0", "1", "2", "3", "4", "5", "6", "7", "8", "9", "A", "B", "C", "D", "E", "F">>

Chr(n) ==
    IF n \in 32..126 THEN Printable[n - 31]
    ELSE "x" \o HexDigits[(n \div 16) + 1] \o HexDigits[(n % 16) + 1]
Code(c) == CHOOSE n \in 0..255 : Chr(n) = c

IsDigit(c) == Code(c) \in 48..57
IsAlnum(c) == Code(c) \in (48..57) \cup (65..90) \cup (97..122)
\* net/url ishex and unhex.
IsHex(c) == Code(c) \in (48..57) \cup (65..70) \cup (97..102)
Unhex(c) ==
    IF Code(c) \in 48..57 THEN Code(c) - 48
    ELSE IF Code(c) \in 65..70 THEN Code(c) - 55
    ELSE Code(c) - 87

\* strings.Cut(s, sep) for a one-byte separator.
Cut(s, sep) ==
    IF \E i \in DOMAIN s : s[i] = sep
    THEN LET i == CHOOSE i \in DOMAIN s : s[i] = sep /\ \A j \in 1..(i - 1) : s[j] # sep
         IN  [before |-> SubSeq(s, 1, i - 1), after |-> SubSeq(s, i + 1, Len(s))]
    ELSE [before |-> s, after |-> <<>>]

\* url.QueryUnescape.
RECURSIVE QueryUnescape(_)
QueryUnescape(s) ==
    IF s = <<>> THEN [err |-> FALSE, s |-> <<>>]
    ELSE IF Head(s) = "%"
    THEN IF Len(s) < 3 \/ ~IsHex(s[2]) \/ ~IsHex(s[3])
         THEN [err |-> TRUE, s |-> <<>>]
         ELSE LET rest == QueryUnescape(SubSeq(s, 4, Len(s)))
              IN  [err |-> rest.err,
                   s |-> <<Chr(16 * Unhex(s[2]) + Unhex(s[3]))>> \o rest.s]
    ELSE LET rest == QueryUnescape(Tail(s))
         IN  [err |-> rest.err,
              s |-> <<IF Head(s) = "+" THEN " " ELSE Head(s)>> \o rest.s]

\* url.QueryEscape: letters, digits and - _ . ~ are kept, a space becomes +,
\* every other byte %XX.
RECURSIVE QueryEscape(_)
QueryEscape(s) ==
    IF s = <<>> THEN <<>>
    ELSE (IF Head(s) = " " THEN <<"+">>
          ELSE IF IsAlnum(Head(s)) \/ Head(s) \in {"-", "_", ".", "~"} THEN <<Head(s)>>
          ELSE <<"%", HexDigits[(Code(Head(s)) \div 16) + 1],
                      HexDigits[(Code(Head(s)) % 16) + 1]>>)
         \o QueryEscape(Tail(s))

\* url.Values: key -> the values given for it, in order.
ValuesAdd(m, key, value) ==
    [k \in DOMAIN m \cup {key} |->
        IF k = key THEN (IF key \in DOMAIN m THEN Append(m[key], value) ELSE <<value>>)
        ELSE m[k]]
ValuesSet(m, key, value) ==
    [k \in DOMAIN m \cup {key} |-> IF k = key THEN <<value>> ELSE m[k]]
ValuesGet(m, key) ==
    IF key \in DOMAIN m /\ m[key] # <<>> THEN m[key][1] ELSE <<>>

\* url.ParseQuery: the pairs between the &s; a pair that does not unescape
\* is an error (the first is reported), an empty pair is skipped.
RECURSIVE ParseQueryInto(_, _, _)
ParseQueryInto(m, err, query) ==
    IF query = <<>> THEN [err |-> err, values |-> m]
    ELSE LET c == Cut(query, "&")
             kv == Cut(c.before, "=")
             key == QueryUnescape(kv.before)
             value == QueryUnescape(kv.after)
         IN  IF c.before = <<>> THEN ParseQueryInto(m, err, c.after)
             ELSE IF key.err \/ value.err THEN ParseQueryInto(m, TRUE, c.after)
             ELSE ParseQueryInto(ValuesAdd(m, key.s, value.s), err, c.after)

ParseQuery(query) == ParseQueryInto(<<>>, FALSE, query)

\* Byte-wise string order (sort.Strings).
RECURSIVE StrLess(_, _)
StrLess(a, b) ==
    IF b = <<>> THEN FALSE
    ELSE IF a = <<>> THEN TRUE
    ELSE IF Head(a) = Head(b) THEN StrLess(Tail(a), Tail(b))
    ELSE Code(Head(a)) < Code(Head(b))

RECURSIVE SortedKeys(_)
SortedKeys(S) ==
    IF S = {} THEN <<>>
    ELSE LET k == CHOOSE k \in S : \A o \in S \ {k} : StrLess(k, o)
         IN  <<k>> \o SortedKeys(S \ {k})

\* url.Values.Encode: key=value pairs joined by &, keys sorted.
RECURSIVE EncodeKey(_, _)
EncodeKey(key, vs) ==
    IF vs = <<>> THEN <<>>
    ELSE <<"&">> \o QueryEscape(key) \o <<"=">> \o QueryEscape(Head(vs))
            \o EncodeKey(key, Tail(vs))

RECURSIVE EncodeKeys(_, _)
EncodeKeys(keys, m) ==
    IF keys = <<>> THEN <<>>
    ELSE EncodeKey(Head(keys), m[Head(keys)]) \o EncodeKeys(Tail(keys), m)

Encode(m) ==
    LET all == EncodeKeys(SortedKeys(DOMAIN m), m)
    IN  IF all = <<>> THEN <<>> ELSE Tail(all)

\* strconv.ParseFloat for the forms the inputs take: an optionally signed
\* decimal with an optional fraction, NaN, Inf; anything else is an error.
RECURSIVE DigitsValue(_)
DigitsValue(s) ==
    IF s = <<>> THEN 0 ELSE 10 * DigitsValue(SubSeq(s, 1, Len(s) - 1)) + Unhex(s[Len(s)])

RECURSIVE Pow10(_)
Pow10(n) == IF n = 0 THEN 1 ELSE 10 * Pow10(n - 1)

AllDigits(s) == \A i \in DOMAIN s : IsDigit(s[i])

ParseUnsigned(s) ==
    LET c == Cut(s, ".")
    IN  IF AllDigits(c.before) /\ AllDigits(c.after)
           /\ Len(c.before) + Len(c.after) > 0
        THEN [err |-> FALSE,
              val |-> Fin(DigitsValue(c.before) * Pow10(Len(c.after)) + DigitsValue(c.after),
                          Pow10(Len(c.after)))]
        ELSE [err |-> TRUE, val |-> NaN]

\* The sign is read first; NaN takes none.
ParseFloat(s) ==
    IF s = <<"N", "a", "N">> THEN [err |-> FALSE, val |-> NaN]
    ELSE IF s \in {<<"I", "n", "f">>, <<"+", "I", "n", "f">>} THEN [err |-> FALSE, val |-> PInf]
    ELSE IF s = <<"-", "I", "n", "f">> THEN [err |-> FALSE, val |-> NInf]
    ELSE IF s # <<>> /\ Head(s) = "-"
    THEN LET p == ParseUnsigned(Tail(s)) IN [err |-> p.err, val |-> FNeg(p.val)]
    ELSE IF s # <<>> /\ Head(s) = "+" THEN ParseUnsigned(Tail(s))
    ELSE ParseUnsigned(s)

\* float64 >=: false when either side is NaN.
FGe(x, y) ==
    IF IsNaN(x) \/ IsNaN(y) THEN FALSE
    ELSE IF IsInf(x) THEN x.n > 0 \/ y = x
    ELSE IF IsInf(y) THEN y.n < 0
    ELSE x.n * y.d >= y.n * x.d

\* strings.HasSuffix on a path, segment by segment.
HasSuffix(path, suffix) ==
    /\ Len(path) >= Len(suffix)
    /\ SubSeq(path, Len(path) - Len(suffix) + 1, Len(path)) = suffix

PartialResponse == <<"p", "a", "r", "t", "i", "a", "l", "_", "r", "e", "s", "p", "o", "n", "s", "e">>
MaxSourceResolution == <<"m", "a", "x", "_", "s", "o", "u", "r", "c", "e", "_", "r", "e", "s", "o", "l", "u", "t", "i", "o", "n">>
StartKey == <<"s", "t", "a", "r", "t">>
EndKey == <<"e", "n", "d">>
QueryRangePath == <<"api", "v1", "query_range">>
QueryPath == <<"api", "v1", "query">>

\* What r.ContentLength is raised by.
PartialResponseLength == 23
ResolutionLength == 25

\* Do's outcomes: an error, or the request handed to c.client.Do.
DoFailed == [forwarded |-> FALSE, body |-> <<>>, ContentLength |-> 0]
Forwarded(query, length) ==
    [forwarded |-> TRUE, body |-> Encode(query), ContentLength |-> length]

\* Mutant of Resolution: the thresholds are compared with > instead of >=.
Resolution_Strict(span) ==
    IF ~FGe(F(28 * 24 * 60 * 60), span) /\ ~IsNaN(span) THEN <<"1", "h">>
    ELSE IF ~FGe(F(7 * 24 * 60 * 60), span) /\ ~IsNaN(span) THEN <<"5", "m">>
    ELSE <<>>

\* The downsampling tier of a range; none below a week.
Resolution(span) ==
    IF FGe(span, F(28 * 24 * 60 * 60)) THEN <<"1", "h">>
    ELSE IF FGe(span, F(7 * 24 * 60 * 60)) THEN <<"5", "m">>
    ELSE <<>>

\* The query_range branch, once start and end have parsed.
WithResolution(query, length, span) ==
    IF Resolution(span) # <<>>
    THEN Forwarded(ValuesSet(query, MaxSourceResolution, Resolution(span)),
                   length + ResolutionLength)
    ELSE Forwarded(query, length)

Do(r) ==
    IF ~r.readable THEN DoFailed
    ELSE LET parsed == ParseQuery(r.body)
             query == ValuesSet(parsed.values, PartialResponse, <<"f", "a", "l", "s", "e">>)
             length == r.ContentLength + PartialResponseLength
             start == ParseFloat(ValuesGet(query, StartKey))
             end == ParseFloat(ValuesGet(query, EndKey))
         IN  IF parsed.err THEN DoFailed
             ELSE IF HasSuffix(r.path, QueryRangePath)
             THEN IF start.err \/ end.err THEN DoFailed
                  ELSE WithResolution(query, length, FSub(end.val, start.val))
             ELSE Forwarded(query, length)

\* Inputs of SpecThanos: bodies put together from a start, an end and one
\* more pair, each possibly missing; and the empty body.
JoinAmp(a, b) == IF a = <<>> THEN b ELSE IF b = <<>> THEN a ELSE a \o <<"&">> \o b
Pair(key, value) == key \o <<"=">> \o value

StartTexts == {<<>>, <<"0">>, <<"0", ".", "5">>, <<"-", "1">>, <<"a", "b", "c">>}
EndTexts == {<<>>, <<"6", "0", "4", "7", "9", "9">>, <<"6", "0", "4", "8", "0", "0">>, <<"2", "4", "1", "9", "1", "9", "9">>, <<"2", "4", "1", "9", "2", "0", "0">>, <<"2", "4", "1", "9", "2", "0", "0", ".", "5">>, <<"N", "a", "N">>, <<"I", "n", "f">>}
OtherPairs ==
    {<<>>,
     <<"q", "u", "e", "r", "y", "=", "u", "p">>,
     <<"p", "a", "r", "t", "i", "a", "l", "_", "r", "e", "s", "p", "o", "n", "s", "e", "=", "t", "r", "u", "e">>,
     <<"m", "a", "x", "_", "s", "o", "u", "r", "c", "e", "_", "r", "e", "s", "o", "l", "u", "t", "i", "o", "n", "=", "1", "h">>,
     <<"s", "t", "e", "p", "=", "1", "4", "&", "m", "a", "x", "_", "s", "o", "u", "r", "c", "e", "_", "r", "e", "s", "o", "l", "u", "t", "i", "o", "n", "=", "a", "u", "t", "o", "&", "m", "a", "x", "_", "s", "o", "u", "r", "c", "e", "_", "r", "e", "s", "o", "l", "u", "t", "i", "o", "n", "=", "5", "m">>,
     <<"q", "u", "e", "r", "y", "=", "u", "p", "%", "7", "B", "a", "%", "3", "D", "%", "2", "2", "b", "+", "c", "%", "2", "2", "%", "7", "D">>,
     <<"q", "u", "e", "r", "y", "=", "u", "p", "{", "a", "}">>,
     <<"d", "e", "d", "u", "p">>,
     <<"q", "u", "e", "r", "y", "=", "%", "z", "z">>}

Bodies ==
    {JoinAmp(JoinAmp(IF s = <<>> THEN <<>> ELSE Pair(StartKey, s),
                     IF e = <<>> THEN <<>> ELSE Pair(EndKey, e)), o) :
        s \in StartTexts, e \in EndTexts, o \in OtherPairs}

\* http.NewRequest sets ContentLength to the length of the body it is given.
Requests ==
    {[path |-> p, body |-> b, ContentLength |-> Len(b), readable |-> rd] :
        p \in {QueryPath, QueryRangePath}, b \in Bodies, rd \in BOOLEAN}

NoForward == [forwarded |-> FALSE, body |-> <<>>, ContentLength |-> -1]

InitThanos ==
    /\ CacheInit
    /\ StatusIdle
    /\ AlertsIdle
    /\ HandlerIdle
    /\ thReq \in Requests
    /\ thFwd = NoForward

ThanosDo ==
    /\ thFwd = NoForward
    /\ thFwd' = Do(thReq)
    /\ UNCHANGED <<cacheVars, statusVars, alertVars, handlerVars, thReq>>

NextThanos == ThanosDo

SpecThanos == InitThanos /\ [][NextThanos]_vars

(***************************************************************************)
(* GetMultiBurnrateAlerts: for every alert rule three goroutines (short    *)
(* burn rate, long burn rate, alert state) each make one o.promAPI.Query   *)
(* call and write one variable of the handler; the handler waits on the    *)
(* sync.WaitGroup and appends the rule's alert.  o.promAPI is an           *)
(* interface: what a call returns is an input of the step that returns it. *)
(***************************************************************************)
Workers == {"short", "long", "state"}

alertstateInactive == "inactive"
alertstatePending == "pending"
alertstateFiring == "firing"

\* openapiserver.Burnrate, its Current; the variables of a rule outside the
\* rule's iteration.
Burnrate(current) == [Current |-> current]
NoBurnrate == [Current |-> NaN]
NoAlertstate == ""

\* A goroutine: not started, in its Query call, back from it with out, or
\* finished (wg.Done called).
NoWorker == [pc |-> "none", out |-> Response(Nil, 0, FALSE)]
Started == [pc |-> "query", out |-> Response(Nil, 0, FALSE)]
NoWorkers == [w \in Workers |-> NoWorker]

\* What o.promAPI.Query may return to each goroutine.
ShortValue == F(2)
LongValue == F(3)
BurnResults(v) ==
    {Response(Nil, 0, TRUE),
     Response(Scalar, 0, FALSE),
     Response(Vector(<<>>), 0, FALSE),
     Response(Vector(<<Sample(1, "", v)>>), 0, FALSE),
     Response(Vector(<<Sample(1, "", v), Sample(2, "", v)>>), 0, FALSE)}
StateResults ==
    {Response(Nil, 0, TRUE),
     Response(Scalar, 0, FALSE),
     Response(Vector(<<>>), 0, FALSE),
     Response(Vector(<<Sample(1, alertstateFiring, F(1)),
                       Sample(2, alertstateFiring, F(1))>>), 0, FALSE)}
        \cup {Response(Vector(<<Sample(1, as, F(1))>>), 0, FALSE) :
                as \in {alertstatePending, alertstateFiring, "", "resolved"}}
        \cup {Response(Vector(<<Sample(1, alertstateFiring, F(0))>>), 0, FALSE)}
QueryResults(w) ==
    IF w = "short" THEN BurnResults(ShortValue)
    ELSE IF w = "long" THEN BurnResults(LongValue)
    ELSE StateResults

\* Variant of Burn: the first sample is taken from a vector of any length.
Burn_FirstOfAny(b, resp) ==
    IF resp.err THEN b
    ELSE IF resp.value.type # "vector" THEN b
    ELSE IF Len(resp.value.samples) = 0 THEN b
    ELSE [b EXCEPT !.Current = resp.value.samples[1].value]

\* The body of the short and of the long goroutine: b after it.
Burn(b, resp) ==
    IF resp.err THEN b
    ELSE IF resp.value.type # "vector" THEN b
    ELSE IF Len(resp.value.samples) # 1 THEN b
    ELSE [b EXCEPT !.Current = resp.value.samples[1].value]

\* Variant of AlertState: the sample's value is not looked at.
AlertState_AnyValue(as, resp) ==
    IF resp.err THEN as
    ELSE IF resp.value.type # "vector" THEN as
    ELSE IF Len(resp.value.samples) # 1 THEN as
    ELSE IF resp.value.samples[1].alertstate = alertstatePending THEN alertstatePending
    ELSE IF resp.value.samples[1].alertstate = alertstateFiring THEN alertstateFiring
    ELSE as

\* The body of the alert-state goroutine: alertstate after it.
AlertState(as, resp) ==
    IF resp.err THEN as
    ELSE IF resp.value.type # "vector" THEN as
    ELSE IF Len(resp.value.samples) # 1 THEN as
    ELSE IF ~FEq(resp.value.samples[1].value, F(1)) THEN as
    ELSE IF resp.value.samples[1].alertstate = alertstatePending THEN alertstatePending
    ELSE IF resp.value.samples[1].alertstate = alertstateFiring THEN alertstateFiring
    ELSE as

\* Variant of Wait: the wait is over while one goroutine is still running.
Wait_Early(n) == n <= 1

\* wg.Wait returns when the counter is zero.
Wait(n) == n = 0

\* The alert of rule k (k stands for the rule's Severity, For and Factor).
MultiBurnrateAlert(k, s, l, state) ==
    [ba |-> k, Short |-> s, Long |-> l, State |-> state]

\* The Burnrate each of the first two goroutines is handed if both get short.
Pointer_Same(w) == "short"

\* The Burnrate each of the first two goroutines is handed: }(short), }(long).
Pointer(w) == w

\* A read ("r") or write ("w") of a variable by the handler or a goroutine.
\* unjoined: for the handler, the goroutines started before the access and
\* not yet waited for; nothing orders their accesses and this one.
Access(who, kind, loc, unjoined) ==
    [who |-> who, kind |-> kind, loc |-> loc, unjoined |-> unjoined]
Field(b, f) == b \o "." \o f
BurnrateFields == {Field(b, f) : b \in {"short", "long"}, f \in {"Window", "Current", "Query"}}
AlertstateVar == "alertstate"

\* The variable a goroutine assigns to, and whether out takes it as far as
\* the assignment.
Target(w) == IF w = "state" THEN AlertstateVar ELSE Field(Pointer(w), "Current")
Assigns(w, out) ==
    IF w = "state" THEN AlertState(NoAlertstate, out) # NoAlertstate
    ELSE Burn(NoBurnrate, out) # NoBurnrate

\* The accesses of a goroutine: b.Query for its call (the third goroutine is
\* handed copies), the assignment at its end.
Reads(w) == IF w = "state" THEN {} ELSE {Access(w, "r", Field(Pointer(w), "Query"), {})}
Writes(w, out) == IF Assigns(w, out) THEN {Access(w, "w", Target(w), {})} ELSE {}

\* The accesses of the handler: the two Burnrate literals; alertstate and the
\* arguments short.Window, long.Window of the third go statement; *short,
\* *long and alertstate in the append.
Literals == {Access("handler", "w", loc, {}) : loc \in BurnrateFields}
ThirdGo ==
    {Access("handler", "w", AlertstateVar, {"short", "long"}),
     Access("handler", "r", Field("short", "Window"), {"short", "long"}),
     Access("handler", "r", Field("long", "Window"), {"short", "long"})}
Unfinished == {w \in Workers : worker[w].pc # "done"}
Appended ==
    {Access("handler", "r", loc, Unfinished) : loc \in BurnrateFields \cup {AlertstateVar}}

AlertsInit ==
    /\ pc = "start"
    /\ baseAlerts = 0
    /\ ba = 0
    /\ short = NoBurnrate
    /\ long = NoBurnrate
    /\ alertstate = NoAlertstate
    /\ wg = 0
    /\ worker = NoWorkers
    /\ alerts = <<>>
    /\ alResp = NoResp
    /\ accesses = {}

\* The handler up to the loop: one objective must match, the grouping must
\* parse and the objective must yield its rules.
Objectives == {"err", "none", "one", "two"}
Groupings == {"", "ok", "bad"}
Start(list, grouping, alertsErr, n) ==
    /\ pc = "start"
    /\ IF list = "err"
       THEN alResp' = ImplResponse(500, <<>>, FALSE) /\ pc' = "done"
                /\ UNCHANGED baseAlerts
       ELSE IF list # "one"
       THEN alResp' = ImplResponse(400, <<>>, FALSE) /\ pc' = "done"
                /\ UNCHANGED baseAlerts
       ELSE IF grouping = "bad"
       THEN alResp' = ImplResponse(0, <<>>, FALSE) /\ pc' = "done"
                /\ UNCHANGED baseAlerts
       ELSE IF alertsErr
       THEN alResp' = ImplResponse(500, <<>>, FALSE) /\ pc' = "done"
                /\ UNCHANGED baseAlerts
       ELSE baseAlerts' = n /\ pc' = "loop" /\ UNCHANGED alResp
    /\ UNCHANGED <<ba, short, long, alertstate, wg, worker, alerts, accesses>>
    /\ UNCHANGED <<cacheVars, statusVars, thanosVars, handlerVars>>

\* The head of an iteration: short, long, wg.Add(3) and the first go.
NextRule ==
    /\ pc = "loop"
    /\ ba < baseAlerts
    /\ ba' = ba + 1
    /\ short' = Burnrate(F(-1))
    /\ long' = Burnrate(F(-1))
    /\ wg' = wg + 3
    /\ worker' = [worker EXCEPT !["short"] = Started]
    /\ pc' = "goLong"
    /\ accesses' = Literals
    /\ UNCHANGED <<baseAlerts, alertstate, alerts, alResp>>
    /\ UNCHANGED <<cacheVars, statusVars, thanosVars, handlerVars>>

GoLong ==
    /\ pc = "goLong"
    /\ worker' = [worker EXCEPT !["long"] = Started]
    /\ pc' = "goState"
    /\ UNCHANGED <<baseAlerts, ba, short, long, alertstate, wg, alerts, alResp, accesses>>
    /\ UNCHANGED <<cacheVars, statusVars, thanosVars, handlerVars>>

GoState ==
    /\ pc = "goState"
    /\ alertstate' = alertstateInactive
    /\ worker' = [worker EXCEPT !["state"] = Started]
    /\ pc' = "wait"
    /\ accesses' = accesses \cup ThirdGo
    /\ UNCHANGED <<baseAlerts, ba, short, long, wg, alerts, alResp>>
    /\ UNCHANGED <<cacheVars, statusVars, thanosVars, handlerVars>>

\* A goroutine's o.promAPI.Query call returns.
QueryReturns(w, resp) ==
    /\ worker[w].pc = "query"
    /\ worker' = [worker EXCEPT ![w] = [pc |-> "returned", out |-> resp]]
    /\ accesses' = accesses \cup Reads(w)
    /\ UNCHANGED <<pc, baseAlerts, ba, short, long, alertstate, wg, alerts, alResp>>
    /\ UNCHANGED <<cacheVars, statusVars, thanosVars, handlerVars>>

\* The rest of a goroutine, the deferred wg.Done included.
Done(w) ==
    /\ worker[w].pc = "returned"
    /\ worker' = [worker EXCEPT ![w].pc = "done"]
    /\ wg' = wg - 1
    /\ accesses' = accesses \cup Writes(w, worker[w].out)

ShortDone ==
    /\ Done("short")
    /\ short' = IF Pointer("short") = "short" THEN Burn(short, worker["short"].out) ELSE short
    /\ long' = IF Pointer("short") = "long" THEN Burn(long, worker["short"].out) ELSE long
    /\ UNCHANGED <<pc, baseAlerts, ba, alertstate, alerts, alResp>>
    /\ UNCHANGED <<cacheVars, statusVars, thanosVars, handlerVars>>

LongDone ==
    /\ Done("long")
    /\ short' = IF Pointer("long") = "short" THEN Burn(short, worker["long"].out) ELSE short
    /\ long' = IF Pointer("long") = "long" THEN Burn(long, worker["long"].out) ELSE long
    /\ UNCHANGED <<pc, baseAlerts, ba, alertstate, alerts, alResp>>
    /\ UNCHANGED <<cacheVars, statusVars, thanosVars, handlerVars>>

StateDone ==
    /\ Done("state")
    /\ alertstate' = AlertState(alertstate, worker["state"].out)
    /\ UNCHANGED <<pc, baseAlerts, ba, short, long, alerts, alResp>>
    /\ UNCHANGED <<cacheVars, statusVars, thanosVars, handlerVars>>

\* wg.Wait and the append; the iteration's variables end with it.
Assemble ==
    /\ pc = "wait"
    /\ Wait(wg)
    /\ alerts' = Append(alerts, MultiBurnrateAlert(ba, short, long, alertstate))
    /\ short' = NoBurnrate
    /\ long' = NoBurnrate
    /\ alertstate' = NoAlertstate
    /\ worker' = NoWorkers
    /\ accesses' = accesses \cup Appended
    /\ pc' = "loop"
    /\ UNCHANGED <<baseAlerts, ba, wg, alResp>>
    /\ UNCHANGED <<cacheVars, statusVars, thanosVars, handlerVars>>

ReturnAlerts ==
    /\ pc = "loop"
    /\ ba >= baseAlerts
    /\ alResp' = ImplResponse(200, alerts, FALSE)
    /\ pc' = "done"
    /\ UNCHANGED <<baseAlerts, ba, short, long, alertstate, wg, worker, alerts, accesses>>
    /\ UNCHANGED <<cacheVars, statusVars, thanosVars, handlerVars>>

MaxRules == 2

InitAlerts == CacheInit /\ StatusIdle /\ ThanosIdle /\ HandlerIdle /\ AlertsInit

NextAlerts ==
    \/ \E list \in Objectives, grouping \in Groupings, alertsErr \in BOOLEAN,
          n \in 0..MaxRules : Start(list, grouping, alertsErr, n)
    \/ NextRule
    \/ GoLong
    \/ GoState
    \/ \E w \in Workers : \E resp \in QueryResults(w) : QueryReturns(w, resp)
    \/ ShortDone
    \/ LongDone
    \/ StateDone
    \/ Assemble
    \/ ReturnAlerts

SpecAlerts == InitAlerts /\ [][NextAlerts]_vars

\* The Go scheduler does not stop while something can run: while a goroutine
\* whose call has returned can finish, or the handler can leave wg.Wait, one
\* of them does.
FairSpecAlerts ==
    /\ SpecAlerts
    /\ WF_vars(ShortDone \/ LongDone \/ StateDone \/ Assemble)

(***************************************************************************)
(* The per-objective handlers from their entry to their first backend      *)
(* query: the objective is resolved through the store                      *)
(* (o.apiclient.ObjectivesApi.ListObjectives) and the grouping is merged    *)
(* into it.  What follows the first query is in SpecStatus, SpecAlerts,     *)
(* SpecRange and SpecMatrix.                                                *)
(***************************************************************************)
Operations ==
    {"GetObjectiveStatus", "GetObjectiveErrorBudget", "GetMultiBurnrateAlerts",
     "GetREDRequests", "GetREDErrors"}

\* What ListObjectives(ctx).Expr(expr).Execute() comes to: a number of
\* objectives, a GenericOpenAPIError whose text starts with the status of
\* the store's answer, or an error of another kind.
StoreObjectives(n) == [err |-> "", status |-> 0, objectives |-> n]
StoreAPIError(status) == [err |-> "GenericOpenAPIError", status |-> status, objectives |-> 0]
StoreOtherError == [err |-> "other", status |-> 0, objectives |-> 0]
StoreAnswers ==
    {StoreObjectives(n) : n \in 0..2}
        \cup {StoreAPIError(status) : status \in {400, 404, 500}}
        \cup {StoreOtherError}

\* parser.ParseMetricSelector on the texts of the inputs: the matchers of a
\* selector, or an error.
Matcher(name, value) == [Name |-> name, Value |-> value]
ExprTexts == {"", "{slo=\"a\"}", "{slo="}
GroupingTexts ==
    {"", "{job=\"a\"}", "{handler=\"h\"}", "{handler=\"h\",job=\"a\"}", "{job="}
ParseMetricSelector(text) ==
    IF text = "{slo=\"a\"}" THEN [err |-> FALSE, matchers |-> <<Matcher("slo", "a")>>]
    ELSE IF text = "{job=\"a\"}" THEN [err |-> FALSE, matchers |-> <<Matcher("job", "a")>>]
    ELSE IF text = "{handler=\"h\"}"
    THEN [err |-> FALSE, matchers |-> <<Matcher("handler", "h")>>]
    ELSE IF text = "{handler=\"h\",job=\"a\"}"
    THEN [err |-> FALSE, matchers |-> <<Matcher("handler", "h"), Matcher("job", "a")>>]
    ELSE [err |-> TRUE, matchers |-> <<>>]

\* objective.Indicator: Ratio and Latency are pointers, one of them nil.
NilPointer == [nil |-> TRUE]
Selector == [LabelMatchers |-> <<>>]
RatioIndicator(grouping) ==
    [nil |-> FALSE, Errors |-> Selector, Total |-> Selector, Grouping |-> grouping]
LatencyIndicator(grouping) ==
    [nil |-> FALSE, Success |-> Selector, Total |-> Selector, Grouping |-> grouping]
Indicator(ratio, latency) == [Ratio |-> ratio, Latency |-> latency]
LabelNames == {"handler", "job", "zone"}
GroupingLists == {<<>>, <<"job">>, <<"job", "zone">>}
Indicators ==
    {Indicator(RatioIndicator(g), NilPointer) : g \in GroupingLists}
        \cup {Indicator(NilPointer, LatencyIndicator(g)) : g \in GroupingLists}

\* What a handler has come to when it returns or issues its first query.
Outcome(code, err, panic, resolved, queried, indicator) ==
    [code |-> code, err |-> err, panic |-> panic, resolved |-> resolved,
     queried |-> queried, indicator |-> indicator]
Returned(code, err, resolved) == Outcome(code, err, FALSE, resolved, FALSE, <<>>)
Panicked == Outcome(0, FALSE, TRUE, TRUE, FALSE, <<>>)
Querying(indicator) == Outcome(0, FALSE, FALSE, TRUE, TRUE, indicator)
NoOutcome == <<>>

\* GetObjectiveStatus: a 404 of the store is passed on.
ResolveStatus(store) ==
    IF store.err # ""
    THEN IF store.err = "GenericOpenAPIError" /\ store.status = 404
         THEN Returned(404, TRUE, FALSE)
         ELSE Returned(500, TRUE, FALSE)
    ELSE IF store.objectives # 1 THEN Returned(400, TRUE, FALSE)
    ELSE NoOutcome

\* The four other handlers.
Resolve(store) ==
    IF store.err # "" THEN Returned(500, TRUE, FALSE)
    ELSE IF store.objectives # 1 THEN Returned(400, TRUE, FALSE)
    ELSE NoOutcome

AppendMatchers(selector, matchers) ==
    [selector EXCEPT !.LabelMatchers = @ \o matchers]

\* The merge of GetObjectiveStatus, GetREDRequests and GetREDErrors.
Merge(indicator, matchers) ==
    LET r == IF indicator.Ratio.nil THEN indicator.Ratio
             ELSE [indicator.Ratio EXCEPT !.Errors = AppendMatchers(@, matchers),
                                          !.Total = AppendMatchers(@, matchers)]
        l == IF indicator.Latency.nil THEN indicator.Latency
             ELSE [indicator.Latency EXCEPT !.Success = AppendMatchers(@, matchers),
                                            !.Total = AppendMatchers(@, matchers)]
    IN  Indicator(r, l)

\* The merge of GetMultiBurnrateAlerts: the grouping is dropped as well.
MergeAlerts(indicator, matchers) ==
    LET r == IF indicator.Ratio.nil THEN indicator.Ratio
             ELSE [indicator.Ratio EXCEPT !.Grouping = <<>>,
                                          !.Errors = AppendMatchers(@, matchers),
                                          !.Total = AppendMatchers(@, matchers)]
        l == IF indicator.Latency.nil THEN indicator.Latency
             ELSE [indicator.Latency EXCEPT !.Grouping = <<>>,
                                            !.Success = AppendMatchers(@, matchers),
                                            !.Total = AppendMatchers(@, matchers)]
    IN  Indicator(r, l)

\* The grouping labels left once the matchers' names are deleted, in the
\* order the map is iterated.
Remaining(grouping, matchers, perm) ==
    MapOrder(perm, {grouping[i] : i \in DOMAIN grouping}
                        \ {matchers[i].Name : i \in DOMAIN matchers})

\* The merge of GetObjectiveErrorBudget.  Both branches work on
\* objective.Indicator.Ratio.Grouping; with Ratio nil the second one
\* dereferences a nil pointer.
MergeErrorBudget(indicator, matchers, perm) ==
    LET r == IF indicator.Ratio.nil THEN indicator.Ratio
             ELSE [indicator.Ratio EXCEPT
                        !.Errors = AppendMatchers(@, matchers),
                        !.Total = AppendMatchers(@, matchers),
                        !.Grouping = Remaining(@, matchers, perm)]
    IN  IF indicator.Latency.nil THEN [panic |-> FALSE, indicator |-> Indicator(r, indicator.Latency)]
        ELSE IF r.nil THEN [panic |-> TRUE, indicator |-> indicator]
        ELSE [panic |-> FALSE,
              indicator |->
                Indicator([r EXCEPT !.Grouping = Remaining(@, matchers, perm)],
                          [indicator.Latency EXCEPT
                                !.Success = AppendMatchers(@, matchers),
                                !.Total = AppendMatchers(@, matchers)])]

\* The handlers, each up to its first backend query.
StatusToQuery(in) ==
    LET parsed == ParseMetricSelector(in.grouping)
    IN  IF ResolveStatus(in.store) # NoOutcome THEN ResolveStatus(in.store)
        ELSE IF in.grouping = "" THEN Querying(in.indicator)
        ELSE IF parsed.err THEN Returned(0, TRUE, TRUE)
        ELSE Querying(Merge(in.indicator, parsed.matchers))

ErrorBudgetToQuery(in, perm) ==
    LET parsed == ParseMetricSelector(in.grouping)
        merged == MergeErrorBudget(in.indicator, parsed.matchers, perm)
    IN  IF Resolve(in.store) # NoOutcome THEN Resolve(in.store)
        ELSE IF in.grouping = "" THEN Querying(in.indicator)
        ELSE IF parsed.err THEN Returned(0, TRUE, TRUE)
        ELSE IF merged.panic THEN Panicked
        ELSE Querying(merged.indicator)

AlertsToQuery(in) ==
    LET parsed == ParseMetricSelector(in.grouping)
    IN  IF Resolve(in.store) # NoOutcome THEN Resolve(in.store)
        ELSE IF in.grouping # "" /\ parsed.err THEN Returned(0, TRUE, TRUE)
        ELSE IF in.alertsErr THEN Returned(500, TRUE, TRUE)
        ELSE IF in.grouping = "" THEN Querying(in.indicator)
        ELSE Querying(MergeAlerts(in.indicator, parsed.matchers))

REDRequestsToQuery(in) ==
    LET parsed == ParseMetricSelector(in.grouping)
    IN  IF Resolve(in.store) # NoOutcome THEN Resolve(in.store)
        ELSE IF in.grouping = "" THEN Querying(in.indicator)
        ELSE IF parsed.err THEN Returned(0, TRUE, TRUE)
        ELSE Querying(Merge(in.indicator, parsed.matchers))

REDErrorsToQuery(in) ==
    LET parsed == ParseMetricSelector(in.grouping)
    IN  IF Resolve(in.store) # NoOutcome THEN Resolve(in.store)
        ELSE IF in.grouping = "" THEN Querying(in.indicator)
        ELSE IF parsed.err THEN Returned(0, TRUE, TRUE)
        ELSE Querying(Merge(in.indicator, parsed.matchers))

\* ListObjectives: the query is parsed before the store is asked.
ListObjectivesToStore(in) ==
    IF in.expr # "" /\ ParseMetricSelector(in.expr).err THEN Returned(400, TRUE, FALSE)
    ELSE IF in.store.err # "" THEN Returned(500, TRUE, FALSE)
    ELSE Returned(200, FALSE, FALSE)

ResolveInputs ==
    [op : Operations \cup {"ListObjectives"}, expr : ExprTexts, store : StoreAnswers,
     grouping : GroupingTexts, indicator : Indicators, alertsErr : BOOLEAN]

InitResolve ==
    /\ CacheInit /\ StatusIdle /\ ThanosIdle /\ AlertsIdle
    /\ hIn \in {in \in ResolveInputs : in.alertsErr => in.op = "GetMultiBurnrateAlerts"}
    /\ hOut = NoOutcome

StatusCall ==
    /\ hIn.op = "GetObjectiveStatus"
    /\ hOut = NoOutcome
    /\ hOut' = StatusToQuery(hIn)
    /\ UNCHANGED <<cacheVars, statusVars, thanosVars, alertVars, hIn>>

ErrorBudgetCall(perm) ==
    /\ hIn.op = "GetObjectiveErrorBudget"
    /\ hOut = NoOutcome
    /\ hOut' = ErrorBudgetToQuery(hIn, perm)
    /\ UNCHANGED <<cacheVars, statusVars, thanosVars, alertVars, hIn>>

AlertsCall ==
    /\ hIn.op = "GetMultiBurnrateAlerts"
    /\ hOut = NoOutcome
    /\ hOut' = AlertsToQuery(hIn)
    /\ UNCHANGED <<cacheVars, statusVars, thanosVars, alertVars, hIn>>

REDRequestsCall ==
    /\ hIn.op = "GetREDRequests"
    /\ hOut = NoOutcome
    /\ hOut' = REDRequestsToQuery(hIn)
    /\ UNCHANGED <<cacheVars, statusVars, thanosVars, alertVars, hIn>>

REDErrorsCall ==
    /\ hIn.op = "GetREDErrors"
    /\ hOut = NoOutcome
    /\ hOut' = REDErrorsToQuery(hIn)
    /\ UNCHANGED <<cacheVars, statusVars, thanosVars, alertVars, hIn>>

ListObjectivesCall ==
    /\ hIn.op = "ListObjectives"
    /\ hOut = NoOutcome
    /\ hOut' = ListObjectivesToStore(hIn)
    /\ UNCHANGED <<cacheVars, statusVars, thanosVars, alertVars, hIn>>

NextResolve ==
    \/ ListObjectivesCall
    \/ StatusCall
    \/ \E perm \in Orders(LabelNames) : ErrorBudgetCall(perm)
    \/ AlertsCall
    \/ REDRequestsCall
    \/ REDErrorsCall

SpecResolve == InitResolve /\ [][NextResolve]_vars

(***************************************************************************)
(* GetREDRequests and GetREDErrors after the objective is resolved: the    *)
(* range [start, end], the step and the timeRange of the range query.  A   *)
(* time.Time is a count of seconds since the epoch and of nanoseconds in   *)
(* the second; a time.Duration, a count of nanoseconds in the code, is     *)
(* kept as the pair (sec, nsec) with 0 <= nsec < 10^9 that stands for      *)
(* sec * 10^9 + nsec nanoseconds, sec being negative for a negative        *)
(* duration.  No duration met here is near the ends of int64.              *)
(***************************************************************************)
NanosPerSecond == 1000000000
Time(sec, nsec) == [sec |-> sec, nsec |-> nsec]
Duration(sec, nsec) == [sec |-> sec, nsec |-> nsec]
Minute == Duration(60, 0)
Hour == Duration(3600, 0)

\* n * d for a duration of whole seconds.
Times(n, d) == Duration(n * d.sec, 0)

\* -d.
Negate(d) ==
    IF d.nsec = 0 THEN Duration(-d.sec, 0)
    ELSE Duration(-d.sec - 1, NanosPerSecond - d.nsec)

\* t.Add(d).
Add(t, d) ==
    IF t.nsec + d.nsec >= NanosPerSecond
    THEN Time(t.sec + d.sec + 1, t.nsec + d.nsec - NanosPerSecond)
    ELSE Time(t.sec + d.sec, t.nsec + d.nsec)

\* t.Sub(u).
Sub(t, u) ==
    IF t.nsec >= u.nsec THEN Duration(t.sec - u.sec, t.nsec - u.nsec)
    ELSE Duration(t.sec - u.sec - 1, NanosPerSecond + t.nsec - u.nsec)

\* time.Unix(sec, 0).
Unix(sec) == Time(sec, 0)

\* d >= e.
AtLeast(d, e) == d.sec > e.sec \/ (d.sec = e.sec /\ d.nsec >= e.nsec)

\* d / 1000 on int64 nanoseconds: the quotient is cut towards zero.
DivPositive(d) ==
    Duration(d.sec \div 1000, (d.sec % 1000) * 1000000 + d.nsec \div 1000)
Div1000(d) == IF d.sec >= 0 THEN DivPositive(d) ELSE Negate(DivPositive(Negate(d)))

\* The range of GetREDRequests.
REDRequestsRange(now, startTimestamp, endTimestamp) ==
    IF startTimestamp # 0 /\ endTimestamp # 0
    THEN [start |-> Unix(startTimestamp), end |-> Unix(endTimestamp)]
    ELSE [start |-> Add(now, Negate(Hour)), end |-> now]

\* The timeRange of GetREDRequests.
REDRequestsTimeRange(diff) ==
    IF AtLeast(diff, Times(28 * 24, Hour)) THEN Times(3, Hour)
    ELSE IF AtLeast(diff, Times(7 * 24, Hour)) THEN Hour
    ELSE IF AtLeast(diff, Times(24, Hour)) THEN Times(30, Minute)
    ELSE IF AtLeast(diff, Times(12, Hour)) THEN Times(15, Minute)
    ELSE Times(5, Minute)

\* The range of GetREDErrors.
REDErrorsRange(now, startTimestamp, endTimestamp) ==
    IF startTimestamp # 0 /\ endTimestamp # 0
    THEN [start |-> Unix(startTimestamp), end |-> Unix(endTimestamp)]
    ELSE [start |-> Add(now, Negate(Hour)), end |-> now]

\* The timeRange of GetREDErrors with each threshold left out of its tier.
REDErrorsTimeRange_Strict(diff) ==
    IF ~AtLeast(Times(28 * 24, Hour), diff) THEN Times(3, Hour)
    ELSE IF ~AtLeast(Times(7 * 24, Hour), diff) THEN Hour
    ELSE IF ~AtLeast(Times(24, Hour), diff) THEN Times(30, Minute)
    ELSE IF ~AtLeast(Times(12, Hour), diff) THEN Times(15, Minute)
    ELSE Times(5, Minute)

\* The timeRange of GetREDErrors.
REDErrorsTimeRange(diff) ==
    IF AtLeast(diff, Times(28 * 24, Hour)) THEN Times(3, Hour)
    ELSE IF AtLeast(diff, Times(7 * 24, Hour)) THEN Hour
    ELSE IF AtLeast(diff, Times(24, Hour)) THEN Times(30, Minute)
    ELSE IF AtLeast(diff, Times(12, Hour)) THEN Times(15, Minute)
    ELSE Times(5, Minute)

\* objective.RequestRange(timeRange) and objective.ErrorsRange(timeRange):
\* the query built from the merged indicator and the window.
RequestRange(indicator, timeRange) ==
    [of |-> "requests", indicator |-> indicator, timeRange |-> timeRange]
ErrorsRange(indicator, timeRange) ==
    [of |-> "errors", indicator |-> indicator, timeRange |-> timeRange]

\* A handler that returned before its range query, and the call of
\* o.promAPI.QueryRange it makes otherwise.
NoRangeQuery(outcome) == [outcome |-> outcome, queried |-> FALSE]
QueryRange(outcome, query, start, end, step) ==
    [outcome |-> outcome, queried |-> TRUE, query |-> query,
     Start |-> start, End |-> end, Step |-> step]

REDRequestsToQueryRange(in) ==
    LET outcome == REDRequestsToQuery(in)
        range == REDRequestsRange(in.now, in.startTimestamp, in.endTimestamp)
        step == Div1000(Sub(range.end, range.start))
        diff == Sub(range.end, range.start)
        query == RequestRange(outcome.indicator, REDRequestsTimeRange(diff))
    IN  IF ~outcome.queried THEN NoRangeQuery(outcome)
        ELSE QueryRange(outcome, query, range.start, range.end, step)

REDErrorsToQueryRange(in) ==
    LET outcome == REDErrorsToQuery(in)
        range == REDErrorsRange(in.now, in.startTimestamp, in.endTimestamp)
        step == Div1000(Sub(range.end, range.start))
        diff == Sub(range.end, range.start)
        query == ErrorsRange(outcome.indicator, REDErrorsTimeRange(diff))
    IN  IF ~outcome.queried THEN NoRangeQuery(outcome)
        ELSE QueryRange(outcome, query, range.start, range.end, step)

\* The requests: spans within MaxSlack seconds of each threshold of the
\* table, of nothing and of thirty days, forwards and backwards, with either
\* timestamp left at zero as well.
MaxSlack == 1
SpanMarks ==
    {0, 2 * Hour.sec, 12 * Hour.sec, 24 * Hour.sec, 7 * 24 * Hour.sec,
     28 * 24 * Hour.sec, 30 * 24 * Hour.sec}
Spans ==
    {mark + k : mark \in SpanMarks, k \in -MaxSlack..MaxSlack}
        \cup {-mark : mark \in SpanMarks}
StartTimestamps == {0, 1000000, 1000000 + 30 * 24 * Hour.sec}
EndTimestamps == {0} \cup {1000000 + span : span \in Spans}
Nows == {Time(1700000000, 0), Time(1700000000, 999999999)}
RangeInputs ==
    [op : {"GetREDRequests", "GetREDErrors"}, expr : {"{slo=\"a\"}"},
     store : {StoreObjectives(1), StoreObjectives(2), StoreAPIError(500)},
     grouping : {"", "{job=\"a\"}", "{job="},
     indicator : {Indicator(RatioIndicator(<<"job">>), NilPointer)},
     alertsErr : {FALSE}, now : Nows,
     startTimestamp : StartTimestamps, endTimestamp : EndTimestamps]

InitRange ==
    /\ CacheInit /\ StatusIdle /\ ThanosIdle /\ AlertsIdle
    /\ hIn \in RangeInputs
    /\ hOut = NoOutcome

REDRequestsQueryRange ==
    /\ hIn.op = "GetREDRequests"
    /\ hOut = NoOutcome
    /\ hOut' = REDRequestsToQueryRange(hIn)
    /\ UNCHANGED <<cacheVars, statusVars, thanosVars, alertVars, hIn>>

REDErrorsQueryRange ==
    /\ hIn.op = "GetREDErrors"
    /\ hOut = NoOutcome
    /\ hOut' = REDErrorsToQueryRange(hIn)
    /\ UNCHANGED <<cacheVars, statusVars, thanosVars, alertVars, hIn>>

NextRange ==
    \/ REDRequestsQueryRange
    \/ REDErrorsQueryRange

SpecRange == InitRange /\ [][NextRange]_vars

(***************************************************************************)
(* matrixToValues: a matrix (one stream of (Timestamp, Value) pairs per    *)
(* series, Timestamp in milliseconds) becomes rows of float64: row 0 the   *)
(* timestamps in seconds, row j the values of series j.  Rows and columns  *)
(* are counted from 1 here, from 0 in the code.                            *)
(***************************************************************************)
SamplePair(t, v) == [Timestamp |-> t, Value |-> v]
SampleStream(pairs) == [Values |-> pairs]

\* Go's / on integers truncates towards zero.
Quo(a, b) == IF a >= 0 THEN a \div b ELSE -((-a) \div b)
\* pair.Timestamp / 1000
Seconds(t) == Quo(t, 1000)

\* float64 <.
FLess(x, y) == ~IsNaN(x) /\ ~IsNaN(y) /\ ~FGe(x, y)

\* The path of a single series: the pairs in their order, NaN left at 0.
SingleSeries(stream) ==
    <<[j \in DOMAIN stream.Values |-> F(Seconds(stream.Values[j].Timestamp))],
      [j \in DOMAIN stream.Values |->
            IF IsNaN(stream.Values[j].Value) THEN F(0) ELSE stream.Values[j].Value]>>

\* pairs[t][i] = pair.Value for one pair of series i; the row of t is made
\* (all 0) when t is new, and a NaN leaves the row as it is.
AddPair(pairs, series, i, pair) ==
    LET t == Seconds(pair.Timestamp)
        row == IF t \in DOMAIN pairs THEN pairs[t] ELSE [k \in 1..series |-> F(0)]
        set == IF IsNaN(pair.Value) THEN row ELSE [row EXCEPT ![i] = pair.Value]
    IN  [k \in DOMAIN pairs \cup {t} |-> IF k = t THEN set ELSE pairs[k]]

RECURSIVE AddStream(_, _, _, _)
AddStream(pairs, series, i, values) ==
    IF values = <<>> THEN pairs
    ELSE AddStream(AddPair(pairs, series, i, Head(values)), series, i, Tail(values))

RECURSIVE AddStreams(_, _, _)
AddStreams(pairs, m, i) ==
    IF i > Len(m) THEN pairs
    ELSE AddStreams(AddStream(pairs, Len(m), i, m[i].Values), m, i + 1)

Pairs(m) == AddStreams(<<>>, m, 1)

\* vs as the range over the map fills it: column c is the c-th key met.
Columns(pairs, series, order) ==
    [n \in 1..(series + 1) |->
        [c \in 1..Len(order) |->
            IF n = 1 THEN F(order[c]) ELSE pairs[order[c]][n - 1]]]

\* type values: Len, Less and Swap.
ValuesLen(v) == Len(v[1])
Less(v, i, j) == FLess(v[1][i], v[1][j])
Swap(v, i, j) ==
    [n \in DOMAIN v |-> [v[n] EXCEPT ![i] = v[n][j], ![j] = v[n][i]]]

\* sort.Sort on a slice this short is an insertion sort.
RECURSIVE Sink(_, _)
Sink(v, j) ==
    IF j > 1 /\ Less(v, j, j - 1) THEN Sink(Swap(v, j, j - 1), j - 1) ELSE v

RECURSIVE SortFrom(_, _)
SortFrom(v, i) ==
    IF i > ValuesLen(v) THEN v ELSE SortFrom(Sink(v, i), i + 1)

Sort(v) == SortFrom(v, 2)

\* perm gives the order in which the map is iterated.
matrixToValues(m, perm) ==
    IF Len(m) = 0 THEN <<>>
    ELSE IF Len(m) = 1 THEN SingleSeries(m[1])
    ELSE Sort(Columns(Pairs(m), Len(m), MapOrder(perm, DOMAIN Pairs(m))))

\* Inputs: up to MaxSeries streams of up to MaxPairs pairs, timestamps
\* ascending within a stream; 1000 and 1500 fall into the same second.
MaxSeries == 2
MaxPairs == 2
Timestamps == {0, 1000, 1500, 2000}
PairValues == {F(7), F(9), NaN}
RECURSIVE StreamsOf(_)
StreamsOf(n) ==
    IF n = 0 THEN {<<>>}
    ELSE StreamsOf(n - 1)
            \cup {Append(s, SamplePair(t, v)) :
                    s \in {x \in StreamsOf(n - 1) : Len(x) = n - 1},
                    t \in Timestamps, v \in PairValues}
Ascending(s) == \A i, j \in DOMAIN s : i < j => s[i].Timestamp < s[j].Timestamp
Streams == {SampleStream(s) : s \in {x \in StreamsOf(MaxPairs) : Ascending(x)}}
RECURSIVE MatricesOf(_)
MatricesOf(n) ==
    IF n = 0 THEN {<<>>}
    ELSE MatricesOf(n - 1)
            \cup {Append(m, s) : m \in {x \in MatricesOf(n - 1) : Len(x) = n - 1},
                                 s \in Streams}

NoValues == [returned |-> FALSE, values |-> <<>>]

InitMatrix ==
    /\ CacheInit /\ StatusIdle /\ ThanosIdle /\ AlertsIdle
    /\ hIn \in [op : {"matrixToValues"}, m : MatricesOf(MaxSeries)]
    /\ hOut = NoValues

MatrixToValuesCall(perm) ==
    /\ hIn.op = "matrixToValues"
    /\ hOut = NoValues
    /\ hOut' = [returned |-> TRUE, values |-> matrixToValues(hIn.m, perm)]
    /\ UNCHANGED <<cacheVars, statusVars, thanosVars, alertVars, hIn>>

NextMatrix ==
    \E perm \in Orders({Seconds(t) : t \in Timestamps}) : MatrixToValuesCall(perm)

SpecMatrix == InitMatrix /\ [][NextMatrix]_vars

(***************************************************************************)
(* Claims about promCache (SpecCache).                                     *)
(***************************************************************************)

\* A step in which request r comes back from the backend.
C1_ReturnStep(r) == inflight[r].op # "idle" /\ inflight'[r].op = "idle"

\* C1: while a key holds an unexpired entry that a Query admitted (a
\* non-empty vector, no warnings, no error), a Query for that key does not
\* go to the backend; a Query served from the cache returns exactly the
\* stored value, with no warnings and no error, and leaves the cache as it
\* is; and what a Query admits is the value it returned, for 5 minutes.
C1_HitReturnsStored ==
    [][/\ \A r \in Reqs :
            (inflight[r].op = "idle" /\ inflight'[r].op = "Query")
            => ~(/\ cache[inflight'[r].key].present
                 /\ cache[inflight'[r].key].src.op = "Query")
       /\ (lastCall' # lastCall /\ inflight' = inflight /\ lastCall'.op = "Query")
            => /\ cache[lastCall'.key].present
               /\ lastCall'.value = cache[lastCall'.key].value
               /\ lastCall'.warnings = 0
               /\ ~lastCall'.err
               /\ ~lastCall'.backend
               /\ cache' = cache
       /\ \A r \in Reqs :
            (/\ C1_ReturnStep(r) /\ inflight[r].op = "Query"
             /\ AdmitVector(lastCall'.value, lastCall'.warnings) /\ ~lastCall'.err)
            => \/ cache' = cache
               \/ /\ cache'[inflight[r].key].present
                  /\ cache'[inflight[r].key].value = lastCall'.value
                  /\ cache'[inflight[r].key].left = QueryTTL
                  /\ cache'[inflight[r].key].src.op = "Query"
      ]_vars

\* C1's case: the last Query was served from an entry stored by a Query.
C1_Witness ==
    /\ lastCall.op = "Query"
    /\ ~lastCall.backend
    /\ lastCall.value = VecA
    /\ cache[lastCall.key].present
    /\ cache[lastCall.key].src.op = "Query"

\* C2: every cache entry is a backend result returned without error, with
\* zero warnings and non-empty (a vector admitted by Query, a matrix by
\* QueryRange); a backend call that failed, carried warnings or returned an
\* empty result leaves the cache as it was.
C2_EntryAdmissible(e) ==
    /\ ~e.src.err
    /\ e.src.warnings = 0
    /\ Len(e.value.samples) > 0
    /\ \/ e.src.op = "Query" /\ e.value.type = "vector" /\ e.left <= QueryTTL
       \/ e.src.op = "QueryRange" /\ e.value.type = "matrix" /\ e.left <= RangeTTL

C2_BadCall(call) ==
    call.err \/ call.warnings > 0 \/ Len(call.value.samples) = 0

C2_OnlyCleanResultsCached ==
    /\ [](\A key \in DOMAIN cache :
            cache[key].present => C2_EntryAdmissible(cache[key]))
    /\ [][\A r \in Reqs :
            (inflight[r].op # "idle" /\ inflight'[r].op = "idle"
                /\ C2_BadCall(lastCall'))
            => cache' = cache]_vars

\* C2's case: a backend call has just failed while the cache holds an entry
\* of each kind.
C2_Witness ==
    /\ lastCall.backend
    /\ lastCall.err
    /\ \E k1, k2 \in Keys :
        /\ cache[k1].present /\ cache[k1].src.op = "Query"
        /\ cache[k2].present /\ cache[k2].src.op = "QueryRange"

\* C3 (as claimed): a lookup that finds a value of the wrong kind is treated
\* as a miss, so a Query served from the cache returns a vector and a
\* QueryRange served from the cache returns a matrix.
C3_WrongKindIsMiss ==
    /\ (lastCall.op = "Query" /\ ~lastCall.backend)
            => lastCall.value.type = "vector"
    /\ (lastCall.op = "QueryRange" /\ ~lastCall.backend)
            => lastCall.value.type = "matrix"

(***************************************************************************)
(* Claims about GetObjectiveStatus (SpecStatus).                           *)
(***************************************************************************)
C4_FpsOf(resp) == {resp.value.samples[i].fp : i \in DOMAIN resp.value.samples}

\* Both backend answers are vectors and no error.
C4_BothVectors ==
    /\ ~stIn.total.err /\ stIn.total.value.type = "vector"
    /\ ~stIn.errors.err /\ stIn.errors.value.type = "vector"

\* The errors query returned a series the total query did not.
C4_UnmatchedSeries ==
    /\ C4_BothVectors
    /\ ~(C4_FpsOf(stIn.errors) \subseteq C4_FpsOf(stIn.total))

\* The errors answer without its unmatched series.
C4_MatchedErrors ==
    Response(Vector(SelectSeq(stIn.errors.value.samples,
                              LAMBDA v : v.fp \in C4_FpsOf(stIn.total))),
             stIn.errors.warnings, stIn.errors.err)

\* C4 (as claimed): when the errors query returns a series whose
\* fingerprint the total query did not return, the handler still answers
\* 200 without a fault, and its statuses are those it builds with that
\* series left out.
C4_UnmatchedErrorsDropped ==
    (stResp # NoResp /\ C4_UnmatchedSeries)
        => /\ stResp.code = 200
           /\ ~stResp.panic
           /\ \E perm \in Orders(Fingerprints) :
                stResp.body = StatusOutcome(EmptyCache, stIn.target, stIn.total,
                                            C4_MatchedErrors, FALSE, FALSE,
                                            perm).resp.body

\* C5: in every 200 response of GetObjectiveStatus, whatever the target
\* (1 included) and the two query results, no status has Total == 0 and
\* neither Percentage nor Remaining is NaN.
C5_NoZeroTotalNoNaN ==
    stResp.code = 200
        => \A i \in DOMAIN stResp.body :
            /\ ~FEq(stResp.body[i].Total, F(0))
            /\ ~IsNaN(stResp.body[i].Percentage)
            /\ ~IsNaN(stResp.body[i].Remaining)

\* C5's case: target 1 (budget 0), a series with no requests that is left
\* out, and a series whose remaining budget 0/0 is reported as 1.
C5_Witness ==
    /\ stResp.code = 200
    /\ stIn.target = F(1)
    /\ \E i \in DOMAIN stIn.total.value.samples :
            stIn.total.value.samples[i].value = F(0)
    /\ Len(stResp.body) = 1
    /\ stResp.body[1].BudgetTotal = F(0)
    /\ stResp.body[1].Errors = F(0)
    /\ stResp.body[1].Remaining = F(1)

(***************************************************************************)
(* Claims about GetMultiBurnrateAlerts (SpecAlerts, FairSpecAlerts).       *)
(***************************************************************************)
\* C6: the alert of a rule is appended only when all three goroutines of
\* the rule have finished, whatever their order and whatever each of them
\* got; and once the three Query calls of a rule have returned, the rule's
\* alert is eventually appended.
C6_BarrierBeforeAssembly ==
    /\ [][alerts' # alerts
            => /\ \A w \in Workers : worker[w].pc = "done"
               /\ Len(alerts') = ba]_vars
    /\ (\A w \in Workers : worker[w].pc \in {"returned", "done"})
            ~> (Len(alerts) = ba)

\* C6's case: the first rule's alert is in, and the second rule's three
\* goroutines have finished, the short one after an error, the state one
\* first of all (the other two had not written yet when it was done).
C6_Witness ==
    /\ pc = "wait"
    /\ ba = 2
    /\ Len(alerts) = 1
    /\ wg = 0
    /\ \A w \in Workers : worker[w].pc = "done"
    /\ worker["short"].out.err
    /\ ~worker["long"].out.err
    /\ long.Current = LongValue

\* A branch fails on a query error, a result that is no vector, or a vector
\* of other than one series.
C7_Failed(out) ==
    out.err \/ out.value.type # "vector" \/ Len(out.value.samples) # 1

\* What a branch yields from its own result alone.
C7_BurnAlone(out) ==
    IF C7_Failed(out) THEN F(-1) ELSE out.value.samples[1].value
C7_StateAlone(out) ==
    IF C7_Failed(out) THEN "inactive"
    ELSE IF out.value.samples[1].value = F(1)
            /\ out.value.samples[1].alertstate \in {"pending", "firing"}
    THEN out.value.samples[1].alertstate
    ELSE "inactive"

\* C7: a failed branch leaves its own value at the default (Current -1,
\* state inactive) and each branch's value is what its own result yields,
\* whatever the other two got; and once the rules are known the handler
\* answers nothing but 200, with one alert per rule, in the rules' order.
C7_FailureStaysInItsBranch ==
    /\ [][alerts' # alerts
            => /\ alerts' = Append(alerts, alerts'[Len(alerts')])
               /\ alerts'[Len(alerts')].Short.Current = C7_BurnAlone(worker["short"].out)
               /\ alerts'[Len(alerts')].Long.Current = C7_BurnAlone(worker["long"].out)
               /\ alerts'[Len(alerts')].State = C7_StateAlone(worker["state"].out)]_vars
    /\ [][(alResp' # alResp /\ pc # "start")
            => /\ alResp'.code = 200
               /\ ~alResp'.panic
               /\ Len(alResp'.body) = baseAlerts
               /\ \A k \in 1..baseAlerts : alResp'.body[k].ba = k]_vars

\* C7's case: a 200 with two alerts; in the first the short branch failed
\* and the other two did not, in the second the state branch stayed
\* inactive and the burn rates are in.
C7_Witness ==
    /\ pc = "done"
    /\ alResp.code = 200
    /\ Len(alResp.body) = 2
    /\ alResp.body[1].Short.Current = F(-1)
    /\ alResp.body[1].Long.Current = LongValue
    /\ alResp.body[1].State = "firing"
    /\ alResp.body[2].Short.Current = ShortValue
    /\ alResp.body[2].Long.Current = F(-1)
    /\ alResp.body[2].State = "inactive"

\* The ALERTS query returned exactly one series, of value 1, whose
\* alertstate label is as.
C8_OneSeries(out, as) ==
    /\ ~out.err
    /\ out.value.type = "vector"
    /\ Len(out.value.samples) = 1
    /\ out.value.samples[1].value = F(1)
    /\ out.value.samples[1].alertstate = as

\* C8: the State of a rule's alert is pending (firing) if and only if the
\* rule's ALERTS query returned exactly one series of value 1 with the
\* alertstate label pending (firing); in every other case it is inactive.
C8_StateFollowsAlertsQuery ==
    [][alerts' # alerts
        => /\ alerts'[Len(alerts')].State = "pending"
                <=> C8_OneSeries(worker["state"].out, "pending")
           /\ alerts'[Len(alerts')].State = "firing"
                <=> C8_OneSeries(worker["state"].out, "firing")
           /\ alerts'[Len(alerts')].State \in {"pending", "firing", "inactive"}]_vars

\* C8's case: one rule reported pending, the next firing.
C8_Witness ==
    /\ Len(alerts) = 2
    /\ alerts[1].State = "pending"
    /\ alerts[2].State = "firing"

(***************************************************************************)
(* Claims about thanosClient.Do (SpecThanos).                              *)
(***************************************************************************)
\* The form fields of the incoming and of the forwarded body.
C9_In == ParseQuery(thReq.body).values
C9_Out == ParseQuery(thFwd.body).values
C9_IsRange == HasSuffix(thReq.path, QueryRangePath)
C9_Span ==
    FSub(ParseFloat(ValuesGet(C9_In, EndKey)).val,
         ParseFloat(ValuesGet(C9_In, StartKey)).val)
C9_Days(n) == F(n * 24 * 60 * 60)
C9_Below(x, y) == ~IsNaN(x) /\ ~IsNaN(y) /\ ~FGe(x, y)
C9_Hint(m) == IF MaxSourceResolution \in DOMAIN m THEN m[MaxSourceResolution] ELSE <<>>

\* What the claim says of every forwarded request but the ranges under a
\* week: partial_response is false; a range of 28 days or more carries 1h,
\* one of 7 days or more 5m; a non-range request has no hint added.
C9_Tiers ==
    /\ C9_Out[PartialResponse] = <<<<"f", "a", "l", "s", "e">>>>
    /\ (C9_IsRange /\ FGe(C9_Span, C9_Days(28)))
            => C9_Hint(C9_Out) = <<<<"1", "h">>>>
    /\ (C9_IsRange /\ FGe(C9_Span, C9_Days(7)) /\ C9_Below(C9_Span, C9_Days(28)))
            => C9_Hint(C9_Out) = <<<<"5", "m">>>>
    /\ ~C9_IsRange => C9_Hint(C9_Out) = C9_Hint(C9_In)

\* C9 (as claimed): for every request whose body parses, the forwarded body
\* has partial_response=false; for a query_range request the forwarded
\* max_source_resolution is 1h from 28 days, 5m from 7 days to 28 days, and
\* absent under 7 days; for a non-range request none is added.
C9_HintAbsentUnderAWeek ==
    thFwd.forwarded
        => /\ C9_Tiers
           /\ (C9_IsRange /\ C9_Below(C9_Span, C9_Days(7)))
                => MaxSourceResolution \notin DOMAIN C9_Out

\* C9 (amended): as above, but under 7 days the adapter neither adds nor
\* changes max_source_resolution: the forwarded body carries what the
\* incoming body carried, and none if that had none.
C9_HintUntouchedUnderAWeek ==
    thFwd.forwarded
        => /\ C9_Tiers
           /\ (C9_IsRange /\ C9_Below(C9_Span, C9_Days(7)))
                => C9_Hint(C9_Out) = C9_Hint(C9_In)

\* C9's case: a range of exactly 7 days is forwarded with the 5m hint and
\* partial_response=false, in place of the hint and the partial_response
\* the incoming body carried.
C9_Witness ==
    /\ thFwd.forwarded
    /\ C9_IsRange
    /\ C9_Span = C9_Days(7)
    /\ C9_Hint(C9_In) = <<<<"1", "h">>>>
    /\ C9_Hint(C9_Out) = <<<<"5", "m">>>>
    /\ C9_Out[PartialResponse] = <<<<"f", "a", "l", "s", "e">>>>

\* C10 (as claimed): the ContentLength of every forwarded request is the
\* byte length of the re-encoded body, for every parseable incoming body:
\* the empty body, a body that already has partial_response or
\* max_source_resolution, and a body not in canonical encoding included.
C10_ContentLengthIsBodyLength ==
    thFwd.forwarded => thFwd.ContentLength = Len(thFwd.body)

(***************************************************************************)
(* Claims about the resolution of the objective and the merge of the       *)
(* grouping (SpecResolve).                                                 *)
(***************************************************************************)
C11_PerObjective == hOut # NoOutcome /\ hIn.op \in Operations

\* C11 (as claimed): in each of the five per-objective operations, exactly
\* one objective from the store lets the handler go on, none or several is
\* a 400, a not-found answer of the store (404) is a 404, any other failure
\* of the store is a 500, and a backend query is issued only when exactly
\* one objective was resolved.
C11_StoreOutcomeClassified ==
    C11_PerObjective
        => /\ (hIn.store.err = "" /\ hIn.store.objectives = 1) => hOut.resolved
           /\ (hIn.store.err = "" /\ hIn.store.objectives # 1)
                => (hOut.code = 400 /\ ~hOut.resolved)
           /\ (hIn.store.err = "GenericOpenAPIError" /\ hIn.store.status = 404)
                => (hOut.code = 404 /\ ~hOut.resolved)
           /\ (hIn.store.err # ""
                    /\ ~(hIn.store.err = "GenericOpenAPIError" /\ hIn.store.status = 404))
                => (hOut.code = 500 /\ ~hOut.resolved)
           /\ hOut.queried => (hIn.store.err = "" /\ hIn.store.objectives = 1)

\* The expr or the grouping handed in is no label-matcher selector.
C12_Malformed ==
    \/ hIn.expr # "" /\ ParseMetricSelector(hIn.expr).err
    \/ hIn.op # "ListObjectives" /\ hIn.grouping # ""
            /\ ParseMetricSelector(hIn.grouping).err

\* C12 (as claimed): an operation handed an expr or a grouping that is no
\* valid label-matcher selector answers a 4xx code together with the parse
\* error: never a 5xx, a 200 or an unset code.  (Checked on the calls that
\* have returned.)
C12_MalformedSelectorIsClientError ==
    (hOut # NoOutcome /\ ~hOut.queried /\ ~hOut.panic /\ C12_Malformed)
        => /\ hOut.code \in 400..499
           /\ hOut.err

\* GetObjectiveErrorBudget has resolved an objective whose indicator is
\* Latency (Ratio nil) and was handed a grouping that parses.
C13_LatencyMerge ==
    /\ hOut # NoOutcome
    /\ hIn.op = "GetObjectiveErrorBudget"
    /\ hIn.store = StoreObjectives(1)
    /\ hIn.grouping # ""
    /\ ~ParseMetricSelector(hIn.grouping).err
    /\ hIn.indicator.Ratio.nil
    /\ ~hIn.indicator.Latency.nil

\* C13 (as claimed): that merge completes without fault, leaves in the
\* latency indicator's grouping list the labels of that list the grouping
\* does not name, and does not touch the ratio indicator.
C13_LatencyMergeUsesOwnGrouping ==
    C13_LatencyMerge
        => /\ ~hOut.panic
           /\ hOut.queried
           /\ hOut.indicator.Ratio = hIn.indicator.Ratio
           /\ \E perm \in Orders(LabelNames) :
                hOut.indicator.Latency.Grouping
                    = Remaining(hIn.indicator.Latency.Grouping,
                                ParseMetricSelector(hIn.grouping).matchers, perm)

(***************************************************************************)
(* Claims about matrixToValues (SpecMatrix).                               *)
(***************************************************************************)
\* The distinct timestamps of the input, and the c-th of them in ascending
\* order.
C14_Timestamps ==
    UNION {{hIn.m[i].Values[k].Timestamp : k \in DOMAIN hIn.m[i].Values} :
                i \in DOMAIN hIn.m}
C14_Nth(c) ==
    CHOOSE t \in C14_Timestamps :
        Cardinality({u \in C14_Timestamps : u < t}) = c - 1

\* Series j's value at timestamp t: 0 when it has no sample there or the
\* sample is NaN.
C14_At(j, t) ==
    IF \E k \in DOMAIN hIn.m[j].Values :
            hIn.m[j].Values[k].Timestamp = t /\ ~IsNaN(hIn.m[j].Values[k].Value)
    THEN hIn.m[j].Values[
            CHOOSE k \in DOMAIN hIn.m[j].Values : hIn.m[j].Values[k].Timestamp = t].Value
    ELSE F(0)

\* C14 (as claimed): for more than one series, there are as many columns as
\* distinct timestamps in the union over all series, row 0 is strictly
\* ascending, and in the column of the c-th timestamp t the row of series j
\* holds that series' value at t (0 without a sample at t, or for NaN).
C14_OneColumnPerTimestamp ==
    (hOut.returned /\ Len(hIn.m) > 1)
        => /\ Len(hOut.values) = Len(hIn.m) + 1
           /\ \A n \in DOMAIN hOut.values :
                Len(hOut.values[n]) = Cardinality(C14_Timestamps)
           /\ \A c \in 2..Cardinality(C14_Timestamps) :
                FLess(hOut.values[1][c - 1], hOut.values[1][c])
           /\ \A c \in 1..Cardinality(C14_Timestamps), j \in DOMAIN hIn.m :
                hOut.values[j + 1][c] = C14_At(j, C14_Nth(c))

(***************************************************************************)
(* Claims about the range of GetREDRequests and GetREDErrors (SpecRange).  *)
(***************************************************************************)
\* The span in seconds of the request: end - start when both timestamps
\* are given, the last hour otherwise.
C15_Span ==
    IF hIn.startTimestamp # 0 /\ hIn.endTimestamp # 0
    THEN hIn.endTimestamp - hIn.startTimestamp
    ELSE 3600

\* The table of the claim, in seconds.
C15_Table ==
    IF C15_Span < 12 * 3600 THEN 5 * 60
    ELSE IF C15_Span < 24 * 3600 THEN 15 * 60
    ELSE IF C15_Span < 7 * 24 * 3600 THEN 30 * 60
    ELSE IF C15_Span < 28 * 24 * 3600 THEN 3600
    ELSE 3 * 3600

\* C15: in GetREDRequests and in GetREDErrors the step handed to the range
\* query is a thousandth of the span end - start (the last hour when the
\* range is not given), and the timeRange of the query is 5m under 12h, 15m
\* from 12h, 30m from 24h, 1h from 7d and 3h from 28d on, the same for both.
C15_StepAndTimeRangeFollowSpan ==
    (hOut # NoOutcome /\ hOut.queried) =>
        /\ hOut.Step.nsec % 1000000 = 0
        /\ hOut.Step.sec * 1000 + hOut.Step.nsec \div 1000000 = C15_Span
        /\ hOut.End.sec - hOut.Start.sec = C15_Span
        /\ hOut.End.nsec = hOut.Start.nsec
        /\ hOut.query.timeRange = Duration(C15_Table, 0)
        /\ hOut.query.of = (IF hIn.op = "GetREDRequests" THEN "requests" ELSE "errors")

\* C15 witness: GetREDErrors has issued its range query for a span of
\* exactly 28 days and GetREDRequests would do so with the same window.
C15_Witness ==
    /\ hOut # NoOutcome /\ hOut.queried
    /\ hIn.op = "GetREDErrors"
    /\ C15_Span = 28 * 24 * 3600
    /\ hOut.query.timeRange = Duration(3 * 3600, 0)
    /\ REDRequestsToQueryRange(hIn).query.timeRange = hOut.query.timeRange

(***************************************************************************)
(* Claims about the variables the goroutines share (SpecAlerts).           *)
(***************************************************************************)
C16_Shared == {Field("short", "Current"), Field("long", "Current"), AlertstateVar}

\* Two accesses of one variable, one of them a write, by different parties
\* with nothing ordering them: two goroutines, or the handler and a
\* goroutine it has started and not waited for.
C16_Conflict(a, b) ==
    /\ a.loc = b.loc
    /\ a.who # b.who
    /\ "w" \in {a.kind, b.kind}
    /\ \/ a.who \in Workers /\ b.who \in Workers
       \/ a.who = "handler" /\ b.who \in a.unjoined
       \/ b.who = "handler" /\ a.who \in b.unjoined

\* The writes of the goroutines, and all writes.
C16_WorkerWrites == {x \in accesses : x.kind = "w" /\ x.who \in Workers}
C16_Writes == {x \in accesses : x.kind = "w"}

C16_Accesses ==
    /\ \A a \in C16_WorkerWrites : \A b \in C16_WorkerWrites :
           (a.loc = b.loc /\ a.loc \in C16_Shared) => a.who = b.who
    /\ \A b \in C16_WorkerWrites : \A a \in accesses :
           (a.who \in Workers /\ a.who # b.who /\ a.kind = "r") => a.loc # b.loc
    /\ \A a \in accesses :
           (a.who = "handler" /\ a.kind = "r" /\ a.loc \in C16_Shared) => a.unjoined = {}
    /\ \A a \in C16_Writes : \A b \in accesses : ~C16_Conflict(a, b)

\* The alert of a rule as the three Query results alone determine it.
C16_Alert ==
    MultiBurnrateAlert(ba, Burn(Burnrate(F(-1)), worker["short"].out),
                       Burn(Burnrate(F(-1)), worker["long"].out),
                       AlertState(alertstateInactive, worker["state"].out))

\* C16: short.Current, long.Current and alertstate are each written by at
\* most one goroutine, no goroutine reads a variable another one writes, the
\* handler reads them only when all three goroutines have called wg.Done, no
\* two accesses race, and the alert appended for a rule is fixed by the three
\* Query results whatever the order the goroutines ran in.
C16_NoRaceAndScheduleIndependent ==
    [][/\ accesses' # accesses => C16_Accesses'
       /\ Len(alerts') > Len(alerts) => alerts' = Append(alerts, C16_Alert)]_vars

\* C16 witness: all three goroutines have written their variable and the
\* handler has read the three variables for the append.
C16_Witness ==
    /\ Len(alerts) >= 1
    /\ \A loc \in C16_Shared :
           /\ \E a \in accesses : a.loc = loc /\ a.kind = "w" /\ a.who \in Workers
           /\ \E a \in accesses : a.loc = loc /\ a.kind = "r" /\ a.who = "handler"

=============================================================================
